---- MODULE Spec2Model ----
(***************************************************************************)
(* NVENC H.264 encoder element (sys/nvcodec/gstnvh264encoder.cpp): the     *)
(* property struct guarded by prop_lock, the three dirty flags, the        *)
(* session configuration built by set_format and the reconfigure decision  *)
(* taken by check_reconfigure at every frame boundary.                     *)
(*                                                                         *)
(* Two threads are modelled.  Any application thread may call              *)
(* set_property at any time; the streaming thread (the worker) runs        *)
(* set_format, check_reconfigure and the encode of one frame in sequence.  *)
(* A critical section of the worker is split at the places where the code  *)
(* reads the property struct, so that a writer that did not take the lock  *)
(* would be visible as a torn configuration.                               *)
(***************************************************************************)
EXTENDS Integers, Sequences, FiniteSets, TLC

VARIABLES
    prm,                  \* the property fields of GstNvH264Encoder
    init_param_updated,   \* self->init_param_updated
    rc_param_updated,     \* self->rc_param_updated
    bitrate_updated,      \* self->bitrate_updated
    prop_lock,            \* holder of self->prop_lock: "free" or "worker"
    packetized,           \* self->packetized
    pc,                   \* position of the streaming thread
    cfg,                  \* the NV_ENC_CONFIG of the session
    reconfig,             \* value returned by the last check_reconfigure
    session,              \* "none", "live" or "failed"
    loc,                  \* locals of the running set_format call
    notified,             \* "bframes" notifications emitted by the last set_format
    downstream,           \* profiles offered by downstream (allowed caps)
    stream_avc,           \* downstream stream-format is "avc"
    info,                 \* input video info: interlaced, Y444
    dev_caps,             \* klass->dev_caps
    nsets,                \* set_property calls made so far
    nframes,              \* frames encoded so far
    snap,                 \* history: prm when the worker last took prop_lock
    applied,              \* history: prm as read by the last (re)configuration
    late_pre,             \* history: levels dirtied between the clear and set_format's lock
    late_post,            \* history: levels dirtied after set_format's unlock
    built,                \* history: what the set_format call before this one returned
    bitstream,            \* the NV_ENC_LOCK_BITSTREAM handed to create_output_buffer
    outbuf,               \* the GstBuffer create_output_buffer returned
    written,              \* history: the units the device wrote, with their start codes
    seq_params,           \* the device's reply to NvEncGetSequenceParams
    output_state,         \* what set_output_state returned and published
    device,               \* the device's replies to the capability queries
    cdata,                \* the class data create_class_data returned
    query_caps,           \* the caps getcaps returned
    activate_state,       \* GstWasapi2Client: self->activate_state
    audio_client,         \* self->audio_client is set
    dispatcher,           \* self->dispatcher is set
    thread_pc,            \* position of gst_wasapi2_client_thread_func
    saw_init,             \* outcome of the test at line 764 of activate_async
    async_op,             \* the activation operation: "none", "pending", "delivered", "never"
    new_pc,               \* position of the caller of gst_wasapi2_client_new
    new_result,           \* what gst_wasapi2_client_new returned
    ens,                  \* per caller, the running gst_wasapi2_client_ensure_activation
    assert_failed,        \* the g_assert of ensure_activation has failed
    loop_running,         \* g_main_loop_is_running (self->loop)
    ncalls,               \* calls of ensure_activation by the user so far
    redraw_pending,       \* GstWaylandSink: self->redraw_pending
    callback,             \* self->callback: 0 for NULL, else the wl_callback proxy
    registered,           \* the wl_callback proxies created and not destroyed
    frame_queue,          \* proxies with a done event queued on self->frame_queue
    last_buffer,          \* self->last_buffer: 0 for NULL, else the buffer
    sf_pc,                \* position of the streaming thread in show_frame
    sf_buffer,            \* the buffer handed to the running show_frame
    cb_arg,               \* the proxy handed to the running frame_redraw_callback
    render_lock,          \* holder of self->render_lock: "free" or "streaming"
    cs_pc,                \* position of change_state in PAUSED_TO_READY
    ncommits              \* buffers committed so far

encoder_vars ==
    <<prm, init_param_updated, rc_param_updated, bitrate_updated, prop_lock,
      packetized, pc, cfg, reconfig, session, loc, notified, downstream,
      stream_avc, info, dev_caps, nsets, nframes, snap, applied, late_pre,
      late_post, built, bitstream, outbuf, written, seq_params, output_state,
      device, cdata, query_caps>>

client_vars ==
    <<activate_state, audio_client, dispatcher, thread_pc, saw_init, async_op,
      new_pc, new_result, ens, assert_failed, loop_running, ncalls>>

sink_vars ==
    <<redraw_pending, callback, registered, frame_queue, last_buffer, sf_pc,
      sf_buffer, cb_arg, render_lock, cs_pc, ncommits>>

vars == <<encoder_vars, client_vars, sink_vars>>

\* the audio client and the video sink before anything has touched them
NoEnsure == [pc |-> "out", ret |-> FALSE]

ClientIdle ==
    /\ activate_state = "INIT"
    /\ audio_client = FALSE
    /\ dispatcher = FALSE
    /\ thread_pc = "none"
    /\ saw_init = FALSE
    /\ async_op = "none"
    /\ new_pc = "new"
    /\ new_result = "none"
    /\ ens = [t \in {"worker", "user"} |-> NoEnsure]
    /\ assert_failed = FALSE
    /\ loop_running = FALSE
    /\ ncalls = 0

SinkIdle ==
    /\ redraw_pending = FALSE
    /\ callback = 0
    /\ registered = {}
    /\ frame_queue = {}
    /\ last_buffer = 0
    /\ sf_pc = "idle"
    /\ sf_buffer = 0
    /\ cb_arg = 0
    /\ render_lock = "free"
    /\ cs_pc = "idle"
    /\ ncommits = 0

(***************************************************************************)
(* Bounds of the model.                                                    *)
(***************************************************************************)
MaxSets == 3
MaxFrames == 2

(***************************************************************************)
(* Program constants.                                                      *)
(***************************************************************************)
DEFAULT_GOP_SIZE == 75
DEFAULT_B_FRAMES == 0
DEFAULT_QP == -1
DEFAULT_BITRATE == 0
DEFAULT_MAX_BITRATE == 0
DEFAULT_VBV_BUFFER_SIZE == 0
DEFAULT_RC_LOOKAHEAD == 0
DEFAULT_CONST_QUALITY == 0

\* const_quality is a gdouble; the model holds it as a count of 1/512 so that the
\* truncation of (gint) (const_quality * 256.0) is computed, not assumed.
ConstQualityDen == 2 * 256

(***************************************************************************)
(* 32-bit unsigned fields of NV_ENC_CONFIG that can receive a negative     *)
(* gint (-1 becomes 0xffffffff) are held as two 16-bit halves.             *)
(***************************************************************************)
U32(x) == [hi |-> (x \div 65536) % 65536, lo |-> x % 65536]

NVENC_INFINITE_GOPLENGTH == [hi |-> 65535, lo |-> 65535]

Profiles == {"baseline", "constrained-baseline", "constrained-high", "high",
             "high-4:4:4", "main", "progressive-high"}

\* std::set<std::string> iterates in lexicographic order
ProfileOrder == <<"baseline", "constrained-baseline", "constrained-high", "high",
                  "high-4:4:4", "main", "progressive-high">>

\* *downstream_profiles.begin ()
Begin(S) ==
    LET i == CHOOSE k \in 1..Len(ProfileOrder) :
                 /\ ProfileOrder[k] \in S
                 /\ \A j \in 1..(k - 1) : ProfileOrder[j] \notin S
    IN ProfileOrder[i]

Levels == {"UPDATE_INIT_PARAM", "UPDATE_RC_PARAM", "UPDATE_BITRATE"}

RcModes == {"DEFAULT", "CONSTQP", "VBR", "CBR"}

\* gst_nv_h264_encoder_init
DefaultParams(caps) ==
    [preset |-> "DEFAULT", weighted_pred |-> FALSE,
     gop_size |-> DEFAULT_GOP_SIZE, bframes |-> DEFAULT_B_FRAMES,
     rc_mode |-> "VBR",
     qp_const_i |-> DEFAULT_QP, qp_const_p |-> DEFAULT_QP, qp_const_b |-> DEFAULT_QP,
     bitrate |-> DEFAULT_BITRATE, max_bitrate |-> DEFAULT_MAX_BITRATE,
     vbv_buffer_size |-> DEFAULT_VBV_BUFFER_SIZE,
     rc_lookahead |-> DEFAULT_RC_LOOKAHEAD,
     i_adapt |-> FALSE, b_adapt |-> FALSE, spatial_aq |-> FALSE,
     temporal_aq |-> FALSE, zero_latency |-> FALSE, non_ref_p |-> FALSE,
     strict_gop |-> FALSE, aq_strength |-> 0,
     qp_min_i |-> DEFAULT_QP, qp_min_p |-> DEFAULT_QP, qp_min_b |-> DEFAULT_QP,
     qp_max_i |-> DEFAULT_QP, qp_max_p |-> DEFAULT_QP, qp_max_b |-> DEFAULT_QP,
     const_quality |-> DEFAULT_CONST_QUALITY,
     aud |-> TRUE, cabac |-> (caps.cabac > 0), repeat_sequence_header |-> FALSE]

Fields == DOMAIN DefaultParams([cabac |-> 1])

(***************************************************************************)
(* set_property: the switch over the property id.  PropField is the struct *)
(* field the case hands to update_*, PropLevel the PropUpdateLevel.        *)
(***************************************************************************)
Props == {"preset", "weighted-pred", "gop-size", "bframes", "rc-mode",
          "qp-const-i", "qp-const-p", "qp-const-b", "bitrate", "max-bitrate",
          "vbv-buffer-size", "rc-lookahead", "i-adapt", "b-adapt", "spatial-aq",
          "temporal-aq", "zerolatency", "nonref-p", "strict-gop", "aq-strength",
          "qp-min-i", "qp-min-p", "qp-min-b", "qp-max-i", "qp-max-p", "qp-max-b",
          "const-quality", "aud", "cabac", "repeat-sequence-header"}

PropField(p) ==
    CASE p = "preset" -> "preset"
      [] p = "weighted-pred" -> "weighted_pred"
      [] p = "gop-size" -> "gop_size"
      [] p = "bframes" -> "bframes"
      [] p = "rc-mode" -> "rc_mode"
      [] p = "qp-const-i" -> "qp_const_i"
      [] p = "qp-const-p" -> "qp_const_p"
      [] p = "qp-const-b" -> "qp_const_b"
      [] p = "bitrate" -> "bitrate"
      [] p = "max-bitrate" -> "max_bitrate"
      [] p = "vbv-buffer-size" -> "vbv_buffer_size"
      [] p = "rc-lookahead" -> "rc_lookahead"
      [] p = "i-adapt" -> "i_adapt"
      [] p = "b-adapt" -> "b_adapt"
      [] p = "spatial-aq" -> "spatial_aq"
      [] p = "temporal-aq" -> "temporal_aq"
      [] p = "zerolatency" -> "zero_latency"
      [] p = "nonref-p" -> "non_ref_p"
      [] p = "strict-gop" -> "strict_gop"
      [] p = "aq-strength" -> "aq_strength"
      [] p = "qp-min-i" -> "qp_min_i"
      [] p = "qp-min-p" -> "qp_min_p"
      [] p = "qp-min-b" -> "qp_min_b"
      [] p = "qp-max-i" -> "qp_min_i"
      [] p = "qp-max-p" -> "qp_min_p"
      [] p = "qp-max-b" -> "qp_min_b"
      [] p = "const-quality" -> "const_quality"
      [] p = "aud" -> "aud"
      [] p = "cabac" -> "cabac"
      [] p = "repeat-sequence-header" -> "repeat_sequence_header"

\* get_property: the struct field a property is read from
GetField(p) ==
    CASE p = "qp-max-i" -> "qp_max_i"
      [] p = "qp-max-p" -> "qp_max_p"
      [] p = "qp-max-b" -> "qp_max_b"
      [] OTHER -> PropField(p)

PropLevel(p) ==
    IF p \in {"bitrate", "max-bitrate"} THEN "UPDATE_BITRATE"
    ELSE IF p \in {"preset", "weighted-pred", "gop-size", "bframes", "rc-lookahead",
                   "aud", "cabac", "repeat-sequence-header"}
         THEN "UPDATE_INIT_PARAM"
         ELSE "UPDATE_RC_PARAM"

\* the level of the properties that write a field
FieldLevel(f) ==
    IF f \in {"bitrate", "max_bitrate"} THEN "UPDATE_BITRATE"
    ELSE IF f \in {"preset", "weighted_pred", "gop_size", "bframes", "rc_lookahead",
                   "aud", "cabac", "repeat_sequence_header"}
         THEN "UPDATE_INIT_PARAM"
         ELSE "UPDATE_RC_PARAM"

Flag(l) ==
    CASE l = "UPDATE_INIT_PARAM" -> init_param_updated
      [] l = "UPDATE_RC_PARAM" -> rc_param_updated
      [] l = "UPDATE_BITRATE" -> bitrate_updated

(***************************************************************************)
(* The preset configuration the device returns from                        *)
(* NvEncGetEncodePresetConfig: the starting point of every build.  Its     *)
(* values are the device's; they are chosen away from every value a        *)
(* property can produce.                                                   *)
(***************************************************************************)
ZeroQP == [qpInterP |-> U32(0), qpInterB |-> U32(0), qpIntra |-> U32(0)]

PresetCfg ==
    [gopLength |-> U32(250), frameIntervalP |-> 3, profileGUID |-> "AUTOSELECT",
     rcParams |->
        [rateControlMode |-> "NV_ENC_PARAMS_RC_PRESET",
         averageBitRate |-> 5000000, maxBitRate |-> 7000000, vbvBufferSize |-> 0,
         enableMinQP |-> FALSE, minQP |-> ZeroQP,
         enableMaxQP |-> FALSE, maxQP |-> ZeroQP,
         enableAQ |-> FALSE, aqStrength |-> 0, enableTemporalAQ |-> FALSE,
         enableLookahead |-> FALSE, lookaheadDepth |-> 0,
         disableIadapt |-> FALSE, disableBadapt |-> FALSE,
         strictGOPTarget |-> FALSE, enableNonRefP |-> FALSE,
         zeroReorderDelay |-> FALSE, targetQuality |-> 0, targetQualityLSB |-> 0],
     h264Config |->
        [level |-> "PRESET", chromaFormatIDC |-> 0, idrPeriod |-> U32(250),
         outputAUD |-> FALSE, disableSPSPPS |-> 0, repeatSPSPPS |-> 0,
         entropyCodingMode |-> "PRESET"]]

(***************************************************************************)
(* set_format, first part (no lock held): the downstream profiles, the     *)
(* interlace filter, the 4:4:4 check and B-frame eligibility.              *)
(***************************************************************************)
InterlaceFilterKeepsBaseline(ds, interlaced) ==
    IF interlaced
    THEN ds \ {"progressive-high", "constrained-high", "constrained-baseline"}
    ELSE ds

InterlaceFilter(ds, interlaced) ==
    IF interlaced
    THEN ds \ {"progressive-high", "constrained-high", "constrained-baseline",
               "baseline"}
    ELSE ds

NegotiateY444Unchecked(ds, vinfo) ==
    LET filtered == InterlaceFilter(ds, vinfo.interlaced) IN
    IF ds = {} \/ filtered = {}
    THEN [ok |-> FALSE, downstream_profiles |-> filtered,
          selected_profile |-> "AUTOSELECT", downstream_supports_bframe |-> FALSE]
    ELSE IF vinfo.y444 /\ "high-4:4:4" \in filtered
         THEN [ok |-> TRUE, downstream_profiles |-> filtered,
               selected_profile |-> "HIGH_444",
               downstream_supports_bframe |-> TRUE]
         ELSE [ok |-> TRUE, downstream_profiles |-> filtered,
               selected_profile |-> "AUTOSELECT",
               downstream_supports_bframe |->
                   (filtered \cap {"high", "main", "progressive-high"} # {})]

NegotiateBFrameAnyProfile(ds, vinfo) ==
    LET filtered == InterlaceFilter(ds, vinfo.interlaced) IN
    IF ds = {} THEN [ok |-> FALSE, downstream_profiles |-> ds,
                     selected_profile |-> "AUTOSELECT",
                     downstream_supports_bframe |-> FALSE]
    ELSE IF filtered = {} THEN [ok |-> FALSE, downstream_profiles |-> filtered,
                                selected_profile |-> "AUTOSELECT",
                                downstream_supports_bframe |-> FALSE]
    ELSE IF vinfo.y444
         THEN IF "high-4:4:4" \notin filtered
              THEN [ok |-> FALSE, downstream_profiles |-> filtered,
                    selected_profile |-> "AUTOSELECT",
                    downstream_supports_bframe |-> FALSE]
              ELSE [ok |-> TRUE, downstream_profiles |-> filtered,
                    selected_profile |-> "HIGH_444",
                    downstream_supports_bframe |-> TRUE]
         ELSE [ok |-> TRUE, downstream_profiles |-> filtered,
               selected_profile |-> "AUTOSELECT",
               downstream_supports_bframe |-> TRUE]

Negotiate(ds, vinfo) ==
    LET filtered == InterlaceFilter(ds, vinfo.interlaced) IN
    IF ds = {} THEN [ok |-> FALSE, downstream_profiles |-> ds,
                     selected_profile |-> "AUTOSELECT",
                     downstream_supports_bframe |-> FALSE]
    ELSE IF filtered = {} THEN [ok |-> FALSE, downstream_profiles |-> filtered,
                                selected_profile |-> "AUTOSELECT",
                                downstream_supports_bframe |-> FALSE]
    ELSE IF vinfo.y444
         THEN IF "high-4:4:4" \notin filtered
              THEN [ok |-> FALSE, downstream_profiles |-> filtered,
                    selected_profile |-> "AUTOSELECT",
                    downstream_supports_bframe |-> FALSE]
              ELSE [ok |-> TRUE, downstream_profiles |-> filtered,
                    selected_profile |-> "HIGH_444",
                    downstream_supports_bframe |-> TRUE]
         ELSE [ok |-> TRUE, downstream_profiles |-> filtered,
               selected_profile |-> "AUTOSELECT",
               downstream_supports_bframe |->
                   (filtered \cap {"high", "main", "progressive-high"} # {})]

(***************************************************************************)
(* set_format under prop_lock: GOP structure.  Returns the configuration,  *)
(* the property struct (bframes may be forced to 0) and bframe_aborted.    *)
(***************************************************************************)
GopStageBFramePlusZero(c, p, supports_bframe) ==
    IF p.gop_size < 0
    THEN [cfg |-> [c EXCEPT !.gopLength = NVENC_INFINITE_GOPLENGTH,
                            !.frameIntervalP = 1],
          prm |-> p, bframe_aborted |-> FALSE]
    ELSE IF p.gop_size > 0
    THEN LET aborted == p.bframes > 0 /\ ~supports_bframe
             q == IF aborted THEN [p EXCEPT !.bframes = 0] ELSE p
         IN [cfg |-> [c EXCEPT !.gopLength = U32(p.gop_size),
                               !.frameIntervalP = q.bframes],
             prm |-> q, bframe_aborted |-> aborted]
    ELSE [cfg |-> [c EXCEPT !.gopLength = U32(1), !.frameIntervalP = 0],
          prm |-> p, bframe_aborted |-> FALSE]

GopStageKeepsBFrames(c, p, supports_bframe) ==
    IF p.gop_size < 0
    THEN [cfg |-> [c EXCEPT !.gopLength = NVENC_INFINITE_GOPLENGTH,
                            !.frameIntervalP = 1],
          prm |-> p, bframe_aborted |-> FALSE]
    ELSE IF p.gop_size > 0
    THEN LET aborted == p.bframes > 0 /\ ~supports_bframe
         IN [cfg |-> [c EXCEPT !.gopLength = U32(p.gop_size),
                               !.frameIntervalP = p.bframes + 1],
             prm |-> p, bframe_aborted |-> aborted]
    ELSE [cfg |-> [c EXCEPT !.gopLength = U32(1), !.frameIntervalP = 0],
          prm |-> p, bframe_aborted |-> FALSE]

GopStageStaleInterval(c, p, supports_bframe) ==
    IF p.gop_size < 0
    THEN [cfg |-> [c EXCEPT !.gopLength = NVENC_INFINITE_GOPLENGTH,
                            !.frameIntervalP = 1],
          prm |-> p, bframe_aborted |-> FALSE]
    ELSE IF p.gop_size > 0
    THEN LET aborted == p.bframes > 0 /\ ~supports_bframe
             q == IF aborted THEN [p EXCEPT !.bframes = 0] ELSE p
         IN [cfg |-> [c EXCEPT !.gopLength = U32(p.gop_size),
                               !.frameIntervalP = p.bframes + 1],
             prm |-> q, bframe_aborted |-> aborted]
    ELSE [cfg |-> [c EXCEPT !.gopLength = U32(1), !.frameIntervalP = 0],
          prm |-> p, bframe_aborted |-> FALSE]

GopStage(c, p, supports_bframe) ==
    IF p.gop_size < 0
    THEN [cfg |-> [c EXCEPT !.gopLength = NVENC_INFINITE_GOPLENGTH,
                            !.frameIntervalP = 1],
          prm |-> p, bframe_aborted |-> FALSE]
    ELSE IF p.gop_size > 0
    THEN LET aborted == p.bframes > 0 /\ ~supports_bframe
             q == IF aborted THEN [p EXCEPT !.bframes = 0] ELSE p
         IN [cfg |-> [c EXCEPT !.gopLength = U32(p.gop_size),
                               !.frameIntervalP = q.bframes + 1],
             prm |-> q, bframe_aborted |-> aborted]
    ELSE [cfg |-> [c EXCEPT !.gopLength = U32(1), !.frameIntervalP = 0],
          prm |-> p, bframe_aborted |-> FALSE]

(***************************************************************************)
(* set_format under prop_lock: rate control.                               *)
(***************************************************************************)
\* bitrate, max-bitrate and vbv-buffer-size: written only when non-zero
RcBitrates(rc, p) ==
    [rc EXCEPT
        !.averageBitRate = IF p.bitrate # 0 THEN p.bitrate * 1024 ELSE @,
        !.maxBitRate = IF p.max_bitrate # 0 THEN p.max_bitrate * 1024 ELSE @,
        !.vbvBufferSize = IF p.vbv_buffer_size # 0
                          THEN p.vbv_buffer_size * 1024 ELSE @]

EffectiveRcModeQpOverrides(p) ==
    IF p.qp_const_i >= 0 THEN "CONSTQP" ELSE p.rc_mode

\* rc-mode Default with qp-const-i set is taken as ConstantQP
EffectiveRcMode(p) ==
    IF p.rc_mode = "DEFAULT" /\ p.qp_const_i >= 0 THEN "CONSTQP" ELSE p.rc_mode

RcMinQPBInheritsI(rc, p) ==
    IF p.qp_min_i >= 0
    THEN LET intra == U32(p.qp_min_i)
             interP == IF p.qp_min_p >= 0 THEN U32(p.qp_min_p) ELSE intra
             interB == IF p.qp_min_b >= 0 THEN U32(p.qp_min_b) ELSE intra
         IN [rc EXCEPT !.enableMinQP = TRUE,
                       !.minQP = [qpIntra |-> intra, qpInterP |-> interP,
                                  qpInterB |-> interB]]
    ELSE rc

RcMinQP(rc, p) ==
    IF p.qp_min_i >= 0
    THEN LET intra == U32(p.qp_min_i)
             interP == IF p.qp_min_p >= 0 THEN U32(p.qp_min_p) ELSE intra
             interB == IF p.qp_min_b >= 0 THEN U32(p.qp_min_b) ELSE interP
         IN [rc EXCEPT !.enableMinQP = TRUE,
                       !.minQP = [qpIntra |-> intra, qpInterP |-> interP,
                                  qpInterB |-> interB]]
    ELSE rc

RcMaxQP(rc, p) ==
    IF p.qp_max_i >= 0
    THEN LET intra == U32(p.qp_max_i)
             interP == IF p.qp_max_p >= 0 THEN U32(p.qp_max_p) ELSE intra
             interB == IF p.qp_max_b >= 0 THEN U32(p.qp_max_b) ELSE interP
         IN [rc EXCEPT !.enableMaxQP = TRUE,
                       !.maxQP = [qpIntra |-> intra, qpInterP |-> interP,
                                  qpInterB |-> interB]]
    ELSE rc

\* the ConstantQP block: it writes maxQP from the qp-max fields once more, this
\* time whether or not qp-max-i is set
RcConstQP(rc, p, rc_mode) ==
    IF rc_mode = "CONSTQP" /\ p.qp_const_i >= 0
    THEN LET intra == U32(p.qp_max_i)
             interP == IF p.qp_max_p >= 0 THEN U32(p.qp_max_p) ELSE intra
             interB == IF p.qp_max_b >= 0 THEN U32(p.qp_max_b) ELSE interP
         IN [rc EXCEPT !.enableMaxQP = TRUE,
                       !.maxQP = [qpIntra |-> intra, qpInterP |-> interP,
                                  qpInterB |-> interB]]
    ELSE rc

\* gst_nv_encoder_rc_mode_to_native (gstnvencoder.cpp)
RcModeToNative(m) ==
    CASE m = "DEFAULT" -> "NV_ENC_PARAMS_RC_DEFAULT"
      [] m = "CONSTQP" -> "NV_ENC_PARAMS_RC_CONSTQP"
      [] m = "VBR" -> "NV_ENC_PARAMS_RC_VBR"
      [] m = "CBR" -> "NV_ENC_PARAMS_RC_CBR"

RcAqLookahead(rc, p) ==
    [rc EXCEPT
        !.enableAQ = IF p.spatial_aq THEN TRUE ELSE @,
        !.aqStrength = IF p.spatial_aq THEN p.aq_strength ELSE @,
        !.enableTemporalAQ = p.temporal_aq,
        !.enableLookahead = IF p.rc_lookahead # 0 THEN TRUE ELSE @,
        !.lookaheadDepth = IF p.rc_lookahead # 0 THEN p.rc_lookahead ELSE @,
        !.disableIadapt = IF p.rc_lookahead # 0 THEN ~p.i_adapt ELSE @,
        !.disableBadapt = IF p.rc_lookahead # 0 THEN ~p.b_adapt ELSE @,
        !.strictGOPTarget = p.strict_gop,
        !.enableNonRefP = p.non_ref_p,
        !.zeroReorderDelay = p.zero_latency]

RcConstQualityNoScale(rc, p) ==
    IF p.const_quality # 0
    THEN LET scaled == p.const_quality \div ConstQualityDen
         IN [rc EXCEPT !.targetQuality = (scaled \div 256) % 256,
                       !.targetQualityLSB = scaled % 256]
    ELSE rc

\* scaled = (gint) (const_quality * 256.0); the two bytes of it
RcConstQuality(rc, p) ==
    IF p.const_quality # 0
    THEN LET scaled == (p.const_quality * 256) \div ConstQualityDen
         IN [rc EXCEPT !.targetQuality = (scaled \div 256) % 256,
                       !.targetQualityLSB = scaled % 256]
    ELSE rc

RcStage(c, p) ==
    LET rc_mode == EffectiveRcMode(p)
        r1 == RcBitrates(c.rcParams, p)
        r2 == RcMinQP(r1, p)
        r3 == RcMaxQP(r2, p)
        r4 == RcConstQP(r3, p, rc_mode)
        r5 == [r4 EXCEPT !.rateControlMode = RcModeToNative(rc_mode)]
        r6 == RcAqLookahead(r5, p)
        r7 == RcConstQuality(r6, p)
    IN [c EXCEPT !.rcParams = r7]

(***************************************************************************)
(* set_format under prop_lock: profile selection and the H.264 config.     *)
(***************************************************************************)
SelectProfileIgnoresBFrames(sel, frameIntervalP, ds) ==
    IF sel = "AUTOSELECT"
    THEN LET first == Begin(ds) IN
         IF first \in {"baseline", "constrained-baseline"} THEN "BASELINE"
         ELSE IF first = "main" THEN "MAIN"
         ELSE IF first = "progressive-high" THEN "PROGRESSIVE_HIGH"
         ELSE IF first = "constrained-high" THEN "CONSTRAINED_HIGH"
         ELSE sel
    ELSE sel

SelectProfile(sel, frameIntervalP, ds) ==
    LET s1 == IF sel = "AUTOSELECT" /\ frameIntervalP > 1
              THEN IF "main" \in ds THEN "MAIN"
                   ELSE IF "high" \in ds THEN "HIGH"
                   ELSE IF "progressive-high" \in ds THEN "PROGRESSIVE_HIGH"
                   ELSE sel
              ELSE sel
    IN IF s1 = "AUTOSELECT"
       THEN LET first == Begin(ds) IN
            IF first \in {"baseline", "constrained-baseline"} THEN "BASELINE"
            ELSE IF first = "main" THEN "MAIN"
            ELSE IF first = "progressive-high" THEN "PROGRESSIVE_HIGH"
            ELSE IF first = "constrained-high" THEN "CONSTRAINED_HIGH"
            ELSE s1
       ELSE s1

CodecStageCabacOnBaseline(c, p, sel, pktz, caps) ==
    LET h == c.h264Config
        h1 == [h EXCEPT
                 !.level = "AUTOSELECT",
                 !.chromaFormatIDC = IF sel = "HIGH_444" THEN 3 ELSE 1,
                 !.idrPeriod = c.gopLength,
                 !.outputAUD = p.aud,
                 !.disableSPSPPS = IF p.repeat_sequence_header THEN 0
                                   ELSE IF pktz THEN 1 ELSE 0,
                 !.repeatSPSPPS = IF p.repeat_sequence_header THEN 1 ELSE @,
                 !.entropyCodingMode =
                     IF caps.cabac > 0
                     THEN IF p.cabac THEN "CABAC" ELSE "CAVLC"
                     ELSE "AUTOSELECT"]
    IN [c EXCEPT !.profileGUID = sel, !.h264Config = h1]

CodecStagePacketizedDisables(c, p, sel, pktz, caps) ==
    LET h == c.h264Config
        h1 == [h EXCEPT
                 !.level = "AUTOSELECT",
                 !.chromaFormatIDC = IF sel = "HIGH_444" THEN 3 ELSE 1,
                 !.idrPeriod = c.gopLength,
                 !.outputAUD = p.aud,
                 !.disableSPSPPS = IF pktz THEN 1 ELSE 0,
                 !.repeatSPSPPS = IF p.repeat_sequence_header THEN 1 ELSE @,
                 !.entropyCodingMode =
                     IF caps.cabac > 0 /\ sel # "BASELINE"
                     THEN IF p.cabac THEN "CABAC" ELSE "CAVLC"
                     ELSE "AUTOSELECT"]
    IN [c EXCEPT !.profileGUID = sel, !.h264Config = h1]

CodecStage(c, p, sel, pktz, caps) ==
    LET h == c.h264Config
        h1 == [h EXCEPT
                 !.level = "AUTOSELECT",
                 !.chromaFormatIDC = IF sel = "HIGH_444" THEN 3 ELSE 1,
                 !.idrPeriod = c.gopLength,
                 !.outputAUD = p.aud,
                 !.disableSPSPPS = IF p.repeat_sequence_header THEN 0
                                   ELSE IF pktz THEN 1 ELSE 0,
                 !.repeatSPSPPS = IF p.repeat_sequence_header THEN 1 ELSE @,
                 !.entropyCodingMode =
                     IF caps.cabac > 0 /\ sel # "BASELINE"
                     THEN IF p.cabac THEN "CABAC" ELSE "CAVLC"
                     ELSE "AUTOSELECT"]
    IN [c EXCEPT !.profileGUID = sel, !.h264Config = h1]

\* the whole build from one property struct: what set_format produces when the
\* struct does not change while it runs
BuildAll(p, ds, vinfo, pktz, caps) ==
    LET n == Negotiate(ds, vinfo)
        g == GopStage(PresetCfg, p, n.downstream_supports_bframe)
        r == RcStage(g.cfg, g.prm)
        sel == SelectProfile(n.selected_profile, r.frameIntervalP,
                             n.downstream_profiles)
    IN [cfg |-> CodecStage(r, g.prm, sel, pktz, caps), prm |-> g.prm,
        bframe_aborted |-> g.bframe_aborted]

(***************************************************************************)
(* set_property.  The caller takes prop_lock, runs the switch (one         *)
(* update_* call) and releases the lock.  update_* returns early when the  *)
(* value is the one the field already holds; otherwise it writes the field *)
(* and raises the flag of the level.                                       *)
(***************************************************************************)
SetPropertyLockIgnored == TRUE

\* g_mutex_lock (&self->prop_lock) in set_property: the caller blocks while the
\* worker holds the lock
SetPropertyCanLock == prop_lock = "free"

\* the switch (level) of update_boolean / update_int / update_uint / update_double
UpdateFlag(old, level, changed) ==
    IF changed THEN [old EXCEPT ![level] = TRUE] ELSE old

FlagRecord ==
    [UPDATE_INIT_PARAM |-> init_param_updated,
     UPDATE_RC_PARAM |-> rc_param_updated,
     UPDATE_BITRATE |-> bitrate_updated]

SetProperty(p, v) ==
    /\ SetPropertyCanLock
    /\ nsets < MaxSets
    /\ nsets' = nsets + 1
    /\ LET f == PropField(p)
           changed == prm[f] # v
           fl == UpdateFlag(FlagRecord, PropLevel(p), changed)
       IN /\ prm' = IF changed THEN [prm EXCEPT ![f] = v] ELSE prm
          /\ init_param_updated' = fl["UPDATE_INIT_PARAM"]
          /\ rc_param_updated' = fl["UPDATE_RC_PARAM"]
          /\ bitrate_updated' = fl["UPDATE_BITRATE"]
          /\ late_post' = IF changed THEN late_post \cup {PropLevel(p)} ELSE late_post
    /\ UNCHANGED <<prop_lock, packetized, pc, cfg, reconfig, session, loc, notified,
                   downstream, stream_avc, info, dev_caps, nframes, snap, applied,
                   late_pre>>
    /\ UNCHANGED <<built, bitstream, outbuf>>
    /\ UNCHANGED <<written, seq_params, output_state, device, cdata, query_caps>>
    /\ UNCHANGED <<client_vars, sink_vars>>

(***************************************************************************)
(* set_format, step by step.                                               *)
(***************************************************************************)
\* lines 1003-1042: no lock held
SetFormatNegotiate ==
    /\ pc = "negotiate"
    /\ LET n == Negotiate(downstream, info) IN
       /\ loc' = [downstream_profiles |-> n.downstream_profiles,
                  selected_profile |-> n.selected_profile,
                  downstream_supports_bframe |-> n.downstream_supports_bframe,
                  bframe_aborted |-> FALSE]
       /\ pc' = IF n.ok THEN "lock" ELSE "error"
       /\ session' = IF n.ok THEN session ELSE "failed"
    /\ packetized' = stream_avc
    /\ notified' = 0
    /\ UNCHANGED <<prm, init_param_updated, rc_param_updated, bitrate_updated,
                   prop_lock, cfg, reconfig, downstream, stream_avc, info, dev_caps,
                   nsets, nframes, snap, applied, late_pre, late_post>>
    /\ UNCHANGED <<built, bitstream, outbuf>>
    /\ UNCHANGED <<written, seq_params, output_state, device, cdata, query_caps>>
    /\ UNCHANGED <<client_vars, sink_vars>>

SetFormatLockKeptOnFailure ==
    /\ pc = "lock"
    /\ prop_lock = "free"
    /\ prop_lock' = "worker"
    /\ \/ /\ pc' = "gop"
          /\ snap' = prm
          /\ UNCHANGED session
       \/ /\ pc' = "error"
          /\ session' = "failed"
          /\ UNCHANGED snap
    /\ UNCHANGED <<prm, init_param_updated, rc_param_updated, bitrate_updated,
                   packetized, cfg, reconfig, loc, notified, downstream, stream_avc,
                   info, dev_caps, nsets, nframes, applied, late_pre, late_post>>
    /\ UNCHANGED <<built, bitstream, outbuf>>
    /\ UNCHANGED <<written, seq_params, output_state, device, cdata, query_caps>>
    /\ UNCHANGED <<client_vars, sink_vars>>

\* lines 1044-1099: the lock is taken and the preset configuration fetched; when
\* the device refuses, the lock is released and set_format returns FALSE with
\* the flags as they are
SetFormatLock ==
    /\ pc = "lock"
    /\ prop_lock = "free"
    /\ \/ /\ prop_lock' = "worker"
          /\ pc' = "gop"
          /\ snap' = prm
          /\ UNCHANGED session
       \/ /\ pc' = "error"
          /\ session' = "failed"
          /\ UNCHANGED <<prop_lock, snap>>
    /\ UNCHANGED <<prm, init_param_updated, rc_param_updated, bitrate_updated,
                   packetized, cfg, reconfig, loc, notified, downstream, stream_avc,
                   info, dev_caps, nsets, nframes, applied, late_pre, late_post>>
    /\ UNCHANGED <<built, bitstream, outbuf>>
    /\ UNCHANGED <<written, seq_params, output_state, device, cdata, query_caps>>
    /\ UNCHANGED <<client_vars, sink_vars>>

\* lines 1101-1126
SetFormatGop ==
    /\ pc = "gop"
    /\ LET g == GopStage(PresetCfg, prm, loc.downstream_supports_bframe) IN
       /\ cfg' = g.cfg
       /\ prm' = g.prm
       /\ loc' = [loc EXCEPT !.bframe_aborted = g.bframe_aborted]
    /\ pc' = "rc"
    /\ UNCHANGED <<init_param_updated, rc_param_updated, bitrate_updated, prop_lock,
                   packetized, reconfig, session, notified, downstream, stream_avc,
                   info, dev_caps, nsets, nframes, snap, applied, late_pre,
                   late_post>>
    /\ UNCHANGED <<built, bitstream, outbuf>>
    /\ UNCHANGED <<written, seq_params, output_state, device, cdata, query_caps>>
    /\ UNCHANGED <<client_vars, sink_vars>>

SetFormatRcKeepsFlags ==
    /\ pc = "rc"
    /\ cfg' = RcStage(cfg, prm)
    /\ late_pre' = late_post
    /\ late_post' = {}
    /\ pc' = "codec"
    /\ UNCHANGED <<prm, init_param_updated, rc_param_updated, bitrate_updated,
                   prop_lock, packetized, reconfig, session, loc, notified,
                   downstream, stream_avc, info, dev_caps, nsets, nframes, snap,
                   applied>>
    /\ UNCHANGED <<built, bitstream, outbuf>>
    /\ UNCHANGED <<written, seq_params, output_state, device, cdata, query_caps>>
    /\ UNCHANGED <<client_vars, sink_vars>>

\* lines 1128-1216: the rate control parameters, then the three flags are cleared
SetFormatRc ==
    /\ pc = "rc"
    /\ cfg' = RcStage(cfg, prm)
    /\ init_param_updated' = FALSE
    /\ bitrate_updated' = FALSE
    /\ rc_param_updated' = FALSE
    /\ late_pre' = late_post
    /\ late_post' = {}
    /\ pc' = "codec"
    /\ UNCHANGED <<prm, prop_lock, packetized, reconfig, session, loc, notified,
                   downstream, stream_avc, info, dev_caps, nsets, nframes, snap,
                   applied>>
    /\ UNCHANGED <<built, bitstream, outbuf>>
    /\ UNCHANGED <<written, seq_params, output_state, device, cdata, query_caps>>
    /\ UNCHANGED <<client_vars, sink_vars>>

\* lines 1218-1290: the profile, the H.264 configuration, and the unlock
SetFormatCodec ==
    /\ pc = "codec"
    /\ LET sel == SelectProfile(loc.selected_profile, cfg.frameIntervalP,
                                loc.downstream_profiles) IN
       /\ cfg' = CodecStage(cfg, prm, sel, packetized, dev_caps)
       /\ loc' = [loc EXCEPT !.selected_profile = sel]
    /\ prop_lock' = "free"
    /\ applied' = prm
    /\ pc' = "notify"
    /\ UNCHANGED <<prm, init_param_updated, rc_param_updated, bitrate_updated,
                   packetized, reconfig, session, notified, downstream, stream_avc,
                   info, dev_caps, nsets, nframes, snap, late_pre, late_post>>
    /\ UNCHANGED <<built, bitstream, outbuf>>
    /\ UNCHANGED <<written, seq_params, output_state, device, cdata, query_caps>>
    /\ UNCHANGED <<client_vars, sink_vars>>

SetFormatReturnClearsLate ==
    /\ pc = "notify"
    /\ notified' = IF loc.bframe_aborted THEN 1 ELSE 0
    /\ init_param_updated' = FALSE
    /\ bitrate_updated' = FALSE
    /\ rc_param_updated' = FALSE
    /\ session' = "live"
    /\ pc' = "encode"
    /\ UNCHANGED <<prm, prop_lock, packetized, cfg, reconfig, loc, downstream,
                   stream_avc, info, dev_caps, nsets, nframes, snap, applied,
                   late_pre, late_post>>
    /\ UNCHANGED <<built, bitstream, outbuf>>
    /\ UNCHANGED <<written, seq_params, output_state, device, cdata, query_caps>>
    /\ UNCHANGED <<client_vars, sink_vars>>

\* lines 1292-1295: the "bframes" notification, and TRUE is returned; the caller
\* then has a configured session
SetFormatReturn ==
    /\ pc = "notify"
    /\ notified' = IF loc.bframe_aborted THEN 1 ELSE 0
    /\ session' = "live"
    /\ pc' = "encode"
    /\ UNCHANGED <<prm, init_param_updated, rc_param_updated, bitrate_updated,
                   prop_lock, packetized, cfg, reconfig, loc, downstream, stream_avc,
                   info, dev_caps, nsets, nframes, snap, applied, late_pre,
                   late_post>>
    /\ UNCHANGED <<built, bitstream, outbuf>>
    /\ UNCHANGED <<written, seq_params, output_state, device, cdata, query_caps>>
    /\ UNCHANGED <<client_vars, sink_vars>>

(***************************************************************************)
(* check_reconfigure, at every frame boundary of a live session.           *)
(***************************************************************************)
ReconfigDecisionInitOnly(init, rc, br, dyn) ==
    IF init THEN "FULL"
    ELSE IF br THEN (IF dyn > 0 THEN "BITRATE" ELSE "FULL")
    ELSE "NONE"

ReconfigDecisionAlwaysSoft(init, rc, br, dyn) ==
    IF init \/ rc THEN "FULL"
    ELSE IF br THEN "BITRATE"
    ELSE "NONE"

ReconfigDecisionEager(init, rc, br, dyn) ==
    IF init \/ rc THEN "FULL"
    ELSE IF dyn > 0 THEN "BITRATE"
    ELSE IF br THEN "FULL" ELSE "NONE"

\* lines 1510-1524
ReconfigDecision(init, rc, br, dyn) ==
    IF init \/ rc THEN "FULL"
    ELSE IF br THEN (IF dyn > 0 THEN "BITRATE" ELSE "FULL")
    ELSE "NONE"

\* lines 1509-1518: the lock, the decision, and on the bitrate path the write of
\* averageBitRate
CheckReconfigure ==
    /\ pc = "frame"
    /\ prop_lock = "free"
    /\ prop_lock' = "worker"
    /\ snap' = prm
    /\ LET r == ReconfigDecision(init_param_updated, rc_param_updated,
                                 bitrate_updated, dev_caps.dyn_bitrate_change) IN
       /\ reconfig' = r
       /\ cfg' = IF r = "BITRATE"
                 THEN [cfg EXCEPT !.rcParams.averageBitRate = prm.bitrate * 1024]
                 ELSE cfg
    /\ pc' = "cr_done"
    /\ UNCHANGED <<prm, init_param_updated, rc_param_updated, bitrate_updated,
                   packetized, session, loc, notified, downstream, stream_avc, info,
                   dev_caps, nsets, nframes, applied, late_pre, late_post>>
    /\ UNCHANGED <<built, bitstream, outbuf>>
    /\ UNCHANGED <<written, seq_params, output_state, device, cdata, query_caps>>
    /\ UNCHANGED <<client_vars, sink_vars>>

CheckReconfigureDoneKeepsBitrateFlag ==
    /\ pc = "cr_done"
    /\ cfg' = IF reconfig = "BITRATE"
              THEN [cfg EXCEPT !.rcParams.maxBitRate = prm.max_bitrate * 1024]
              ELSE cfg
    /\ applied' = IF reconfig = "BITRATE"
                  THEN [applied EXCEPT !.bitrate = prm.bitrate,
                                       !.max_bitrate = prm.max_bitrate]
                  ELSE applied
    /\ init_param_updated' = FALSE
    /\ rc_param_updated' = FALSE
    /\ late_pre' = {}
    /\ late_post' = {}
    /\ prop_lock' = "free"
    /\ pc' = "cr_ret"
    /\ UNCHANGED <<prm, bitrate_updated, packetized, reconfig, session, loc,
                   notified, downstream, stream_avc, info, dev_caps, nsets, nframes,
                   snap>>
    /\ UNCHANGED <<built, bitstream, outbuf>>
    /\ UNCHANGED <<written, seq_params, output_state, device, cdata, query_caps>>
    /\ UNCHANGED <<client_vars, sink_vars>>

\* lines 1519-1532: on the bitrate path the write of maxBitRate; then, at done:,
\* the three flags are cleared, the lock released and the decision returned
CheckReconfigureDone ==
    /\ pc = "cr_done"
    /\ cfg' = IF reconfig = "BITRATE"
              THEN [cfg EXCEPT !.rcParams.maxBitRate = prm.max_bitrate * 1024]
              ELSE cfg
    /\ applied' = IF reconfig = "BITRATE"
                  THEN [applied EXCEPT !.bitrate = prm.bitrate,
                                       !.max_bitrate = prm.max_bitrate]
                  ELSE applied
    /\ init_param_updated' = FALSE
    /\ rc_param_updated' = FALSE
    /\ bitrate_updated' = FALSE
    /\ late_pre' = {}
    /\ late_post' = {}
    /\ prop_lock' = "free"
    /\ pc' = "cr_ret"
    /\ UNCHANGED <<prm, packetized, reconfig, session, loc, notified, downstream,
                   stream_avc, info, dev_caps, nsets, nframes, snap>>
    /\ UNCHANGED <<built, bitstream, outbuf>>
    /\ UNCHANGED <<written, seq_params, output_state, device, cdata, query_caps>>
    /\ UNCHANGED <<client_vars, sink_vars>>

(***************************************************************************)
(* The caller of the two methods (the base encoder class): on FULL the     *)
(* session is torn down and set_format builds the next one; on BITRATE the *)
(* live session is updated in place; then the frame is encoded.            *)
(***************************************************************************)
Dispatch ==
    /\ pc = "cr_ret"
    /\ IF reconfig = "FULL"
       THEN /\ session' = "none"
            /\ pc' = "negotiate"
       ELSE /\ pc' = "encode"
            /\ UNCHANGED session
    /\ UNCHANGED <<prm, init_param_updated, rc_param_updated, bitrate_updated,
                   prop_lock, packetized, cfg, reconfig, loc, notified, downstream,
                   stream_avc, info, dev_caps, nsets, nframes, snap, applied,
                   late_pre, late_post>>
    /\ UNCHANGED <<built, bitstream, outbuf>>
    /\ UNCHANGED <<written, seq_params, output_state, device, cdata, query_caps>>
    /\ UNCHANGED <<client_vars, sink_vars>>

EncodeFrame ==
    /\ pc = "encode"
    /\ nframes < MaxFrames
    /\ nframes' = nframes + 1
    /\ pc' = "frame"
    /\ UNCHANGED <<prm, init_param_updated, rc_param_updated, bitrate_updated,
                   prop_lock, packetized, cfg, reconfig, session, loc, notified,
                   downstream, stream_avc, info, dev_caps, nsets, snap, applied,
                   late_pre, late_post>>
    /\ UNCHANGED <<built, bitstream, outbuf>>
    /\ UNCHANGED <<written, seq_params, output_state, device, cdata, query_caps>>
    /\ UNCHANGED <<client_vars, sink_vars>>

(***************************************************************************)
(* The encoder at work: the state after gst_nv_h264_encoder_init, with the *)
(* device and the downstream peer one of a few, then any interleaving of   *)
(* set_property calls with the worker.                                     *)
(***************************************************************************)
\* before any set_format call has returned
NoBuild == [prm |-> DefaultParams([cabac |-> 1]), cfg |-> PresetCfg,
            bframe_aborted |-> FALSE]

\* before the session's sequence header has been asked for
NoSequenceParams == [status |-> "NV_ENC_SUCCESS", spspps |-> <<>>, seq_size |-> 0]

\* before set_output_state has run; caps holds the caps that were published,
\* if any
NoOutputState == [called |-> FALSE, ret |-> FALSE, caps |-> <<>>]

\* outside the registration of the element the device is not queried
NoDevice == [failed |-> {}]

\* create_class_data returned NULL, or has not run
NoClassData == [ok |-> FALSE]

\* before any caps query; caps holds the structures of the caps returned
NoCaps == [called |-> FALSE, caps |-> <<>>]

\* before any frame has been encoded
NoBitstream == [bitstreamBufferPtr |-> <<>>, bitstreamSizeInBytes |-> 0]

NoLocals ==
    [downstream_profiles |-> {}, selected_profile |-> "AUTOSELECT",
     downstream_supports_bframe |-> FALSE, bframe_aborted |-> FALSE]

\* the values the application sets, per property
PropValues(p) ==
    CASE p = "bitrate" -> {0, 1000}
      [] p = "max-bitrate" -> {0, 2000}
      [] p = "gop-size" -> {DEFAULT_GOP_SIZE, 30}
      [] p = "bframes" -> {0, 2}
      [] p = "qp-min-i" -> {-1, 10}
      [] p = "qp-max-i" -> {-1, 40}

WorkerProps == {"bitrate", "max-bitrate", "gop-size", "bframes", "qp-min-i",
                "qp-max-i"}

Init ==
    /\ dev_caps \in [dyn_bitrate_change : {0, 1}, cabac : {1}]
    /\ prm = DefaultParams(dev_caps)
    /\ init_param_updated = FALSE
    /\ rc_param_updated = FALSE
    /\ bitrate_updated = FALSE
    /\ prop_lock = "free"
    /\ packetized = FALSE
    /\ pc = "negotiate"
    /\ cfg = PresetCfg
    /\ reconfig = "NONE"
    /\ session = "none"
    /\ loc = NoLocals
    /\ notified = 0
    /\ downstream \in {{}, {"baseline"}, {"high", "main"}}
    /\ stream_avc = FALSE
    /\ info = [interlaced |-> FALSE, y444 |-> FALSE]
    /\ nsets = 0
    /\ nframes = 0
    /\ snap = prm
    /\ applied = prm
    /\ late_pre = {}
    /\ late_post = {}
    /\ built = NoBuild
    /\ bitstream = NoBitstream
    /\ outbuf = <<>>
    /\ written = <<>>
    /\ seq_params = NoSequenceParams
    /\ output_state = NoOutputState
    /\ device = NoDevice
    /\ cdata = NoClassData
    /\ query_caps = NoCaps
    /\ ClientIdle
    /\ SinkIdle

Next ==
    \/ \E p \in WorkerProps : \E v \in PropValues(p) : SetProperty(p, v)
    \/ SetFormatNegotiate
    \/ SetFormatLock
    \/ SetFormatGop
    \/ SetFormatRc
    \/ SetFormatCodec
    \/ SetFormatReturn
    \/ CheckReconfigure
    \/ CheckReconfigureDone
    \/ Dispatch
    \/ EncodeFrame

Spec == Init /\ [][Next]_vars

(***************************************************************************)
(* The builder on its own: one call of set_format on a property struct and *)
(* a peer drawn from bounded sets.  The struct's fields range over values  *)
(* of their declared property ranges.  Two families of inputs are drawn:   *)
(* the GOP, header and entropy settings against every downstream profile   *)
(* set and input format; and the rate control settings against one peer    *)
(* (the rate control block reads nothing of the negotiation).              *)
(***************************************************************************)
GopSizes == {-1, 0, 30}
BFrameCounts == {0, 2}
QpI == {-1, 10}
QpP == {-1, 11}
QpB == {-1, 12}
QpMaxI == {-1, 40}
QpMaxP == {-1, 41}
QpMaxB == {-1, 42}
ConstQualities == {0, 2, 16640, 16641, 26112}

NegotiationInputs ==
    /\ dev_caps \in [dyn_bitrate_change : {1}, cabac : {0, 1}]
    /\ \E g \in GopSizes, b \in BFrameCounts, rsh \in BOOLEAN,
          cb \in (IF dev_caps.cabac > 0 THEN BOOLEAN ELSE {FALSE}) :
          prm = [DefaultParams(dev_caps) EXCEPT
                    !.gop_size = g, !.bframes = b, !.cabac = cb,
                    !.repeat_sequence_header = rsh]
    /\ downstream \in SUBSET Profiles
    /\ stream_avc \in BOOLEAN
    /\ info \in [interlaced : BOOLEAN, y444 : BOOLEAN]

RateControlInputs ==
    /\ dev_caps = [dyn_bitrate_change |-> 1, cabac |-> 1]
    /\ \E m \in RcModes, ci \in {-1, 20}, ni \in QpI, np \in QpP, nb \in QpB,
          xi \in QpMaxI, xp \in QpMaxP, xb \in QpMaxB, br \in {0, 1000},
          mbr \in {0, 2000}, cq \in ConstQualities :
          prm = [DefaultParams(dev_caps) EXCEPT
                    !.rc_mode = m, !.qp_const_i = ci,
                    !.qp_min_i = ni, !.qp_min_p = np, !.qp_min_b = nb,
                    !.qp_max_i = xi, !.qp_max_p = xp, !.qp_max_b = xb,
                    !.bitrate = br, !.max_bitrate = mbr, !.const_quality = cq]
    /\ downstream = {"high"}
    /\ stream_avc = FALSE
    /\ info = [interlaced |-> FALSE, y444 |-> FALSE]

InitBuild ==
    /\ (NegotiationInputs \/ RateControlInputs)
    /\ init_param_updated = FALSE
    /\ rc_param_updated = FALSE
    /\ bitrate_updated = FALSE
    /\ prop_lock = "free"
    /\ packetized = FALSE
    /\ pc = "negotiate"
    /\ cfg = PresetCfg
    /\ reconfig = "NONE"
    /\ session = "none"
    /\ loc = NoLocals
    /\ notified = 0
    /\ nsets = 0
    /\ nframes = 0
    /\ snap = prm
    /\ applied = prm
    /\ late_pre = {}
    /\ late_post = {}
    /\ built = NoBuild
    /\ bitstream = NoBitstream
    /\ outbuf = <<>>
    /\ written = <<>>
    /\ seq_params = NoSequenceParams
    /\ output_state = NoOutputState
    /\ device = NoDevice
    /\ cdata = NoClassData
    /\ query_caps = NoCaps
    /\ ClientIdle
    /\ SinkIdle

\* the caller (the base encoder class) opens a new session on the same input
\* format and the same peer: set_format runs once more on the struct the first
\* call left; what the first call returned is kept for comparison
Renegotiate ==
    /\ pc = "encode"
    /\ session = "live"
    /\ built = NoBuild
    /\ built' = [prm |-> prm, cfg |-> cfg, bframe_aborted |-> loc.bframe_aborted]
    /\ session' = "none"
    /\ pc' = "negotiate"
    /\ UNCHANGED <<prm, init_param_updated, rc_param_updated, bitrate_updated,
                   prop_lock, packetized, cfg, reconfig, loc, notified, downstream,
                   stream_avc, info, dev_caps, nsets, nframes, snap, applied,
                   late_pre, late_post, bitstream, outbuf>>
    /\ UNCHANGED <<written, seq_params, output_state, device, cdata, query_caps>>
    /\ UNCHANGED <<client_vars, sink_vars>>

NextBuild ==
    \/ SetFormatNegotiate
    \/ SetFormatLock
    \/ SetFormatGop
    \/ SetFormatRc
    \/ SetFormatCodec
    \/ SetFormatReturn

SpecBuild == InitBuild /\ [][NextBuild]_vars

\* the builder called twice in a row
NextRebuild ==
    \/ SetFormatNegotiate
    \/ SetFormatLock
    \/ SetFormatGop
    \/ SetFormatRc
    \/ SetFormatCodec
    \/ SetFormatReturn
    \/ Renegotiate

SpecRebuild == InitBuild /\ [][NextRebuild]_vars

(***************************************************************************)
(* set_property alone, over every property: the calls an application makes *)
(* while no frame arrives.  The session is live and has applied what was   *)
(* set before, so the flags are clear and the struct may differ from the   *)
(* defaults in the field of one property.                                  *)
(***************************************************************************)
AllPropValues(p) ==
    CASE p \in {"weighted-pred", "i-adapt", "b-adapt", "spatial-aq", "temporal-aq",
                "zerolatency", "nonref-p", "strict-gop", "aud", "cabac",
                "repeat-sequence-header"} -> BOOLEAN
      [] p = "preset" -> {"DEFAULT", "HQ"}
      [] p = "rc-mode" -> RcModes
      [] p = "gop-size" -> {DEFAULT_GOP_SIZE, 30}
      [] p = "bframes" -> {DEFAULT_B_FRAMES, 2}
      [] p = "bitrate" -> {DEFAULT_BITRATE, 1000}
      [] p = "max-bitrate" -> {DEFAULT_MAX_BITRATE, 2000}
      [] p = "vbv-buffer-size" -> {DEFAULT_VBV_BUFFER_SIZE, 500}
      [] p = "rc-lookahead" -> {DEFAULT_RC_LOOKAHEAD, 8}
      [] p = "aq-strength" -> {0, 8}
      [] p = "const-quality" -> {DEFAULT_CONST_QUALITY, 16640}
      [] p \in {"qp-const-i", "qp-const-p", "qp-const-b"} -> {DEFAULT_QP, 20}
      [] p \in {"qp-min-i", "qp-min-p", "qp-min-b", "qp-max-i", "qp-max-p",
                "qp-max-b"} -> {DEFAULT_QP, 10, 40}

InitProps ==
    /\ dev_caps = [dyn_bitrate_change |-> 1, cabac |-> 1]
    /\ \E p \in Props : \E v \in AllPropValues(p) :
          prm = [DefaultParams(dev_caps) EXCEPT ![PropField(p)] = v]
    /\ init_param_updated = FALSE
    /\ rc_param_updated = FALSE
    /\ bitrate_updated = FALSE
    /\ prop_lock = "free"
    /\ stream_avc = FALSE
    /\ packetized = FALSE
    /\ downstream = {"high", "main"}
    /\ info = [interlaced |-> FALSE, y444 |-> FALSE]
    /\ cfg = BuildAll(prm, downstream, info, packetized, dev_caps).cfg
    /\ pc = "encode"
    /\ reconfig = "NONE"
    /\ session = "live"
    /\ loc = NoLocals
    /\ notified = 0
    /\ nsets = MaxSets - 2
    /\ nframes = 0
    /\ snap = prm
    /\ applied = prm
    /\ late_pre = {}
    /\ late_post = {}
    /\ built = NoBuild
    /\ bitstream = NoBitstream
    /\ outbuf = <<>>
    /\ written = <<>>
    /\ seq_params = NoSequenceParams
    /\ output_state = NoOutputState
    /\ device = NoDevice
    /\ cdata = NoClassData
    /\ query_caps = NoCaps
    /\ ClientIdle
    /\ SinkIdle

NextProps == \E p \in Props : \E v \in AllPropValues(p) : SetProperty(p, v)

SpecProps == InitProps /\ [][NextProps]_vars

(***************************************************************************)
(* create_output_buffer: the packaging of one locked bitstream.  The       *)
(* device buffer may be longer than what the encoder wrote to it;          *)
(* bitstreamSizeInBytes is the number of bytes written.  A GstBuffer is    *)
(* the sequence of its memories, each a sequence of bytes.                 *)
(***************************************************************************)
MaxBytes == 4

Bytes == {0, 1, 2}

BoundedSeq(S, n) == UNION {[1..k -> S] : k \in 0..n}

MaxUnits == 2

MaxUnitLen == 3

\* the bytes of a unit the device writes: a zero, and the header of a slice
UnitBytes == {0, 101}

\* the device delimits a unit by 00 00 01 or by 00 00 00 01
StartCodes == {<<0, 0, 1>>, <<0, 0, 0, 1>>}

Units == BoundedSeq(UnitBytes, MaxUnitLen) \ {<<>>}

\* the bytes of a buffer the device filled with the units w, each after its
\* start code
RECURSIVE Frame(_)
Frame(w) == IF w = <<>> THEN <<>> ELSE Head(w).sc \o Head(w).unit \o Frame(Tail(w))

\* gst_buffer_new_memdup (data, size): one memory, a copy of the first size bytes
MemdupWhole(data, size) == <<data>>

Memdup(data, size) == <<SubSeq(data, 1, size)>>

\* GST_WRITE_UINT32_BE
Uint32BE(n) ==
    <<(n \div (256 * 65536)) % 256, (n \div 65536) % 256, (n \div 256) % 256,
      n % 256>>

\* scan_for_start_codes (gsth264parser.c): the index, counted from 0, of the
\* first 00 00 01 in data[from .. size) that is followed by one more byte; -1
\* when there is none.  data is indexed from 1, from is an offset counted from 0.
ScanForStartCode(data, from, size) ==
    LET hits == {i \in 0..(size - from - 4) :
                    /\ data[from + i + 1] = 0
                    /\ data[from + i + 2] = 0
                    /\ data[from + i + 3] = 1}
    IN IF hits = {} THEN -1
       ELSE CHOOSE i \in hits : \A j \in hits : i <= j

\* the padding zeros before the next start code are not part of the unit
RECURSIVE StripZeros(_, _, _)
StripZeros(data, offset, off2) ==
    IF off2 > 0 /\ data[offset + off2] = 0
    THEN StripZeros(data, offset, off2 - 1)
    ELSE off2

\* the nal_unit_type of a header byte
NalType(byte) == byte % 32

GST_H264_NAL_SEQ_END == 10

GST_H264_NAL_STREAM_END == 11

GST_H264_NAL_PREFIX_UNIT == 14

GST_H264_NAL_SLICE_EXT == 20

NoNalu(rst) == [rst |-> rst, offset |-> 0, size |-> 0, type |-> 0]

\* gst_h264_parser_identify_nalu_unchecked (gsth264parser.c): the unit after
\* the first start code at or after offset, taken to reach the end of the
\* data.  The header of a prefix unit or of a slice extension is four bytes
\* long; a unit that ends a sequence or a stream is one byte long.
IdentifyNaluUnchecked(data, offset, size) ==
    IF size < offset + 4 THEN NoNalu("ERROR")
    ELSE LET off1 == ScanForStartCode(data, offset, size) IN
         IF off1 < 0 THEN NoNalu("NO_NAL")
         ELSE LET start == offset + off1 + 3
                  type == NalType(data[start + 1])
              IN IF /\ type \in {GST_H264_NAL_PREFIX_UNIT, GST_H264_NAL_SLICE_EXT}
                    /\ size - start < 4
                 THEN [rst |-> "BROKEN_DATA", offset |-> start, size |-> 0,
                       type |-> type]
                 ELSE [rst |-> "OK", offset |-> start,
                       size |-> IF type \in {GST_H264_NAL_SEQ_END,
                                             GST_H264_NAL_STREAM_END}
                                THEN 1 ELSE size - start,
                       type |-> type]

\* gst_h264_parser_identify_nalu (gsth264parser.c): the unit ends before the
\* padding of the next start code
IdentifyNalu(data, offset, size) ==
    LET nalu == IdentifyNaluUnchecked(data, offset, size) IN
    IF nalu.rst # "OK" THEN nalu
    ELSE IF nalu.type \in {GST_H264_NAL_SEQ_END, GST_H264_NAL_STREAM_END}
    THEN nalu
    ELSE LET off2 == ScanForStartCode(data, nalu.offset, size) IN
         IF off2 < 0 THEN [nalu EXCEPT !.rst = "NO_NAL_END"]
         ELSE LET n == StripZeros(data, nalu.offset, off2) IN
              [nalu EXCEPT !.rst = IF n < 2 THEN "BROKEN_DATA" ELSE "OK",
                           !.size = n]

RECURSIVE AppendNalusDropsLast(_, _, _, _)
AppendNalusDropsLast(buffer, data, size, nalu) ==
    IF nalu.rst = "OK"
    THEN AppendNalusDropsLast(
             Append(buffer,
                    Uint32BE(nalu.size)
                        \o SubSeq(data, nalu.offset + 1, nalu.offset + nalu.size)),
             data, size, IdentifyNalu(data, nalu.offset + nalu.size, size))
    ELSE buffer

\* lines 1469-1497: one memory per unit, its size as 4 bytes and then its bytes
RECURSIVE AppendNalus(_, _, _, _)
AppendNalus(buffer, data, size, nalu) ==
    IF nalu.rst \in {"OK", "NO_NAL_END"}
    THEN AppendNalus(
             Append(buffer,
                    Uint32BE(nalu.size)
                        \o SubSeq(data, nalu.offset + 1, nalu.offset + nalu.size)),
             data, size, IdentifyNalu(data, nalu.offset + nalu.size, size))
    ELSE buffer

\* lines 1455-1498
PackageBitstream(pktz, bs) ==
    IF ~pktz
    THEN Memdup(bs.bitstreamBufferPtr, bs.bitstreamSizeInBytes)
    ELSE AppendNalus(<<>>, bs.bitstreamBufferPtr, bs.bitstreamSizeInBytes,
                     IdentifyNalu(bs.bitstreamBufferPtr, 0,
                                  bs.bitstreamSizeInBytes))

CreateOutputBuffer ==
    /\ pc = "output"
    /\ outbuf' = PackageBitstream(packetized, bitstream)
    /\ pc' = "pushed"
    /\ UNCHANGED <<prm, init_param_updated, rc_param_updated, bitrate_updated,
                   prop_lock, packetized, cfg, reconfig, session, loc, notified,
                   downstream, stream_avc, info, dev_caps, nsets, nframes, snap,
                   applied, late_pre, late_post, built, bitstream>>
    /\ UNCHANGED <<written, seq_params, output_state, device, cdata, query_caps>>
    /\ UNCHANGED <<client_vars, sink_vars>>

\* one bitstream of a live session, in either stream format
InitPack ==
    /\ dev_caps = [dyn_bitrate_change |-> 1, cabac |-> 1]
    /\ prm = DefaultParams(dev_caps)
    /\ init_param_updated = FALSE
    /\ rc_param_updated = FALSE
    /\ bitrate_updated = FALSE
    /\ prop_lock = "free"
    /\ stream_avc \in BOOLEAN
    /\ packetized = stream_avc
    /\ downstream = {"high"}
    /\ info = [interlaced |-> FALSE, y444 |-> FALSE]
    /\ cfg = BuildAll(prm, downstream, info, packetized, dev_caps).cfg
    /\ pc = "output"
    /\ reconfig = "NONE"
    /\ session = "live"
    /\ loc = NoLocals
    /\ notified = 0
    /\ nsets = 0
    /\ nframes = 0
    /\ snap = prm
    /\ applied = prm
    /\ late_pre = {}
    /\ late_post = {}
    /\ built = NoBuild
    /\ \/ /\ written = <<>>
          /\ \E data \in BoundedSeq(Bytes, MaxBytes) : \E n \in 0..Len(data) :
                bitstream = [bitstreamBufferPtr |-> data,
                             bitstreamSizeInBytes |-> n]
       \/ /\ written \in BoundedSeq([sc : StartCodes, unit : Units], MaxUnits)
          /\ written # <<>>
          /\ bitstream = [bitstreamBufferPtr |-> Frame(written),
                          bitstreamSizeInBytes |-> Len(Frame(written))]
    /\ outbuf = <<>>
    /\ seq_params = NoSequenceParams
    /\ output_state = NoOutputState
    /\ device = NoDevice
    /\ cdata = NoClassData
    /\ query_caps = NoCaps
    /\ ClientIdle
    /\ SinkIdle

NextPack == CreateOutputBuffer

SpecPack == InitPack /\ [][NextPack]_vars

(***************************************************************************)
(* set_output_state: the output caps of a session, from the sequence       *)
(* header the device returns for it.  The header is the bytes the device   *)
(* wrote to spspps, seq_size of them.                                      *)
(***************************************************************************)
\* gst_codec_utils_h264_get_profile on the three bytes after the unit's
\* header: profile_idc, the constraint flags, level_idc
H264GetProfile(sps) ==
    LET csf1 == (sps[2] \div 64) % 2
        csf3 == (sps[2] \div 16) % 2
        csf4 == (sps[2] \div 8) % 2
        csf5 == (sps[2] \div 4) % 2
    IN CASE sps[1] = 66 -> IF csf1 = 1 THEN "constrained-baseline" ELSE "baseline"
         [] sps[1] = 77 -> "main"
         [] sps[1] = 88 -> "extended"
         [] sps[1] = 100 -> IF csf4 = 1
                            THEN IF csf5 = 1 THEN "constrained-high"
                                 ELSE "progressive-high"
                            ELSE "high"
         [] sps[1] = 244 -> IF csf3 = 1 THEN "high-4:4:4-intra" ELSE "high-4:4:4"
         [] OTHER -> "NULL"

\* GST_WRITE_UINT16_BE
Uint16BE(n) == <<(n \div 256) % 256, n % 256>>

\* lines 1352-1400: the AVC decoder configuration record; the caps of a
\* stream that is not packetized hold none, written <<>>
CodecDataSwapsUnits(data, sps, pps) ==
    <<1, data[sps.offset + 2], data[sps.offset + 3], data[sps.offset + 4], 255, 225>>
        \o Uint16BE(pps.size) \o SubSeq(data, pps.offset + 1, pps.offset + pps.size)
        \o <<1>>
        \o Uint16BE(sps.size) \o SubSeq(data, sps.offset + 1, sps.offset + sps.size)

CodecData(data, sps, pps) ==
    <<1, data[sps.offset + 2], data[sps.offset + 3], data[sps.offset + 4], 255, 225>>
        \o Uint16BE(sps.size) \o SubSeq(data, sps.offset + 1, sps.offset + sps.size)
        \o <<1>>
        \o Uint16BE(pps.size) \o SubSeq(data, pps.offset + 1, pps.offset + pps.size)

\* lines 1406-1423: the profile field of the caps, "none" when the caps get none
OutputProfileAlwaysParsed(ds, profile_from_sps) ==
    IF profile_from_sps = "NULL" THEN "none" ELSE profile_from_sps

OutputProfile(ds, profile_from_sps) ==
    IF profile_from_sps = "NULL" THEN "none"
    ELSE IF ds # {}
    THEN IF profile_from_sps \in ds THEN profile_from_sps
         ELSE IF "baseline" \in ds /\ profile_from_sps = "constrained-baseline"
         THEN "baseline"
         ELSE IF "constrained-baseline" \in ds
                 /\ profile_from_sps = "constrained-baseline"
         THEN "constrained-baseline"
         ELSE "none"
    ELSE profile_from_sps

\* lines 1425-1429
StreamFormatAlwaysByteStream(pktz) == "byte-stream"

StreamFormat(pktz) == IF pktz THEN "avc" ELSE "byte-stream"

\* lines 1321-1350: the two units of the sequence header, or the failure
SequenceNalusAcceptsShortSps(pktz, sp) ==
    IF sp.status # "NV_ENC_SUCCESS" THEN [ok |-> FALSE]
    ELSE LET sps == IdentifyNalu(sp.spspps, 0, sp.seq_size) IN
         IF sps.rst # "OK" THEN [ok |-> FALSE]
         ELSE LET pps == IdentifyNaluUnchecked(sp.spspps, sps.offset + sps.size,
                                               sp.seq_size)
              IN IF pps.rst # "OK" /\ pktz THEN [ok |-> FALSE]
                 ELSE [ok |-> TRUE, sps |-> sps, pps |-> pps]

SequenceNalus(pktz, sp) ==
    IF sp.status # "NV_ENC_SUCCESS" THEN [ok |-> FALSE]
    ELSE LET sps == IdentifyNalu(sp.spspps, 0, sp.seq_size) IN
         IF sps.rst # "OK" THEN [ok |-> FALSE]
         ELSE IF sps.size < 4 THEN [ok |-> FALSE]
         ELSE LET pps == IdentifyNaluUnchecked(sp.spspps, sps.offset + sps.size,
                                               sp.seq_size)
              IN IF pps.rst # "OK" /\ pktz THEN [ok |-> FALSE]
                 ELSE [ok |-> TRUE, sps |-> sps, pps |-> pps]

\* lines 1298-1453: what the function returns and the caps it publishes
OutputState(ds, pktz, sp) ==
    LET nalus == SequenceNalus(pktz, sp) IN
    IF ~nalus.ok THEN [called |-> TRUE, ret |-> FALSE, caps |-> <<>>]
    ELSE [called |-> TRUE, ret |-> TRUE,
          caps |-> <<[alignment |-> "au",
                    profile |-> OutputProfile(ds,
                                   H264GetProfile(SubSeq(sp.spspps,
                                                         nalus.sps.offset + 2,
                                                         nalus.sps.offset + 4))),
                    stream_format |-> StreamFormat(pktz),
                    codec_data |-> IF pktz
                                   THEN CodecData(sp.spspps, nalus.sps, nalus.pps)
                                   ELSE <<>>]>>]

SetOutputState ==
    /\ pc = "output_state"
    /\ output_state' = OutputState(downstream, packetized, seq_params)
    /\ pc' = IF output_state'.ret THEN "output" ELSE "error"
    /\ UNCHANGED <<prm, init_param_updated, rc_param_updated, bitrate_updated,
                   prop_lock, packetized, cfg, reconfig, session, loc, notified,
                   downstream, stream_avc, info, dev_caps, nsets, nframes, snap,
                   applied, late_pre, late_post, built, bitstream, outbuf>>
    /\ UNCHANGED <<written, seq_params, device, cdata, query_caps>>
    /\ UNCHANGED <<client_vars, sink_vars>>

\* the units of a sequence header: parameter sets of the profiles, one cut
\* short, picture parameter sets, and a prefix unit without its extension
HeaderUnits ==
    {<<103, 66, 0, 31>>, <<103, 66, 64, 31>>, <<103, 77, 0, 31>>,
     <<103, 100, 0, 31>>, <<103, 88, 0, 31>>, <<103, 55, 0, 31>>,
     <<103, 66, 64>>, <<104, 206>>, <<104>>, <<14, 1>>}

\* the profiles downstream offers to a session whose header names one of
\* the profiles of HeaderUnits
OutputDownstreams == SUBSET {"baseline", "constrained-baseline", "main", "high"}

\* a session set_format has initialised, about to publish its output state;
\* its first bitstream holds two units
InitOut ==
    /\ dev_caps = [dyn_bitrate_change |-> 1, cabac |-> 1]
    /\ prm = DefaultParams(dev_caps)
    /\ init_param_updated = FALSE
    /\ rc_param_updated = FALSE
    /\ bitrate_updated = FALSE
    /\ prop_lock = "free"
    /\ stream_avc \in BOOLEAN
    /\ packetized = stream_avc
    /\ downstream \in OutputDownstreams
    /\ info = [interlaced |-> FALSE, y444 |-> FALSE]
    /\ cfg = BuildAll(prm, IF downstream = {} THEN {"high"} ELSE downstream, info,
                      packetized, dev_caps).cfg
    /\ pc = "output_state"
    /\ reconfig = "NONE"
    /\ session = "live"
    /\ loc = NoLocals
    /\ notified = 0
    /\ nsets = 0
    /\ nframes = 0
    /\ snap = prm
    /\ applied = prm
    /\ late_pre = {}
    /\ late_post = {}
    /\ built = NoBuild
    /\ bitstream =
          LET data == <<0, 0, 0, 1, 101, 101, 0, 0, 1, 0, 101>> IN
          [bitstreamBufferPtr |-> data, bitstreamSizeInBytes |-> Len(data)]
    /\ outbuf = <<>>
    /\ \/ /\ written \in UNION {[1..k -> [sc : StartCodes, unit : HeaderUnits]] :
                                  k \in 0..2}
          /\ seq_params = [status |-> "NV_ENC_SUCCESS", spspps |-> Frame(written),
                           seq_size |-> Len(Frame(written))]
       \/ /\ written = <<>>
          /\ seq_params = [status |-> "NV_ENC_ERR_GENERIC", spspps |-> <<>>,
                           seq_size |-> 0]
    /\ output_state = NoOutputState
    /\ device = NoDevice
    /\ cdata = NoClassData
    /\ query_caps = NoCaps
    /\ ClientIdle
    /\ SinkIdle

NextOut ==
    \/ SetOutputState
    \/ CreateOutputBuffer

SpecOut == InitOut /\ [][NextOut]_vars

(***************************************************************************)
(* create_class_data: the probe of one device when the element is          *)
(* registered.  device holds the replies of the device: the status and the *)
(* list of the profile query and of the input format query, the set of     *)
(* capability queries that fail, and the value of each one that succeeds.  *)
(* The build is not one for Windows: async_encoding_support is not queried *)
(* and stays 0.                                                            *)
(***************************************************************************)
MaxFailedQueries == 1

NV_ENC_PARAMS_RC_VBR == 1

\* lines 1589-1655: the fields CHECK_CAPS fills, each with its default
CapDefault ==
    [f \in {"max_bframes", "field_encoding", "monochrome", "fmo", "qpelmv",
            "bdirect_mode", "cabac", "adaptive_transform", "stereo_mvc",
            "temoral_layers", "hierarchical_pframes", "hierarchical_bframes",
            "level_max", "level_min", "seperate_colour_plane", "temporal_svc",
            "dyn_res_change", "dyn_bitrate_change", "dyn_force_constqp",
            "dyn_rcmode_change", "subframe_readback", "constrained_encoding",
            "intra_refresh", "custom_vbv_buf_size", "dynamic_slice_mode",
            "ref_pic_invalidation", "preproc_support", "mb_num_max",
            "mb_per_sec_max", "yuv444_encode", "lossless_encode", "meonly_mode",
            "lookahead", "temporal_aq", "supports_10bit_encode",
            "num_max_ltr_frames", "weighted_prediction", "bframe_ref_mode",
            "emphasis_level_map", "multiple_ref_frames"} |-> 0]
    @@ [f \in {"ratecontrol_modes"} |-> NV_ENC_PARAMS_RC_VBR]
    @@ [f \in {"width_max", "height_max"} |-> 4096]
    @@ [f \in {"width_min", "height_min"} |-> 16]

\* what a device answers to the queries that succeed: no value is the
\* default of its field
DeviceAnswer ==
    [f \in DOMAIN CapDefault |->
        CASE f \in {"width_max", "height_max"} -> 8192
          [] f \in {"width_min", "height_min"} -> 33
          [] f = "ratecontrol_modes" -> 63
          [] f = "max_bframes" -> 4
          [] OTHER -> 1]

\* the subsets of S of at most n elements
RECURSIVE SubsetsUpTo(_, _)
SubsetsUpTo(S, n) ==
    IF n = 0 THEN {{}}
    ELSE LET smaller == SubsetsUpTo(S, n - 1) IN
         smaller \cup {F \cup {f} : F \in smaller, f \in S}

\* the replies of the devices: every set of up to MaxFailedQueries failing
\* capability queries, with or without 4:4:4 and field encoding, and the
\* lists of profiles and of input formats, unknown entries among them
Devices ==
    [profiles : [status : {"NV_ENC_SUCCESS"},
                 guids : {<<>>, <<"BASELINE", "STEREO">>, <<"STEREO">>,
                          <<"MAIN", "HIGH", "HIGH_444", "BASELINE",
                            "PROGRESSIVE_HIGH", "CONSTRAINED_HIGH">>}]
                \cup {[status |-> "NV_ENC_ERR_GENERIC", guids |-> <<>>]},
     formats : [status : {"NV_ENC_SUCCESS"},
                list : {<<>>, <<"NV12">>, <<"YUV444">>, <<"ARGB">>,
                        <<"NV12", "YUV444", "ARGB">>}]
                \cup {[status |-> "NV_ENC_ERR_GENERIC", list |-> <<>>]},
     failed : SubsetsUpTo(DOMAIN CapDefault, MaxFailedQueries),
     value : {[DeviceAnswer EXCEPT !["yuv444_encode"] = y, !["field_encoding"] = e] :
                 y \in {0, 1}, e \in {0, 1}}]

\* CHECK_CAPS, lines 1573-1587
CheckCapsLeavesZero(dev, f) == IF f \in dev.failed THEN 0 ELSE dev.value[f]

CheckCaps(dev, f) == IF f \in dev.failed THEN CapDefault[f] ELSE dev.value[f]

\* lines 1696-1711
GuidProfiles(guid) ==
    CASE guid = "BASELINE" -> {"baseline", "constrained-baseline"}
      [] guid = "MAIN" -> {"main"}
      [] guid = "HIGH" -> {"high"}
      [] guid = "HIGH_444" -> {"high-4:4:4"}
      [] guid = "PROGRESSIVE_HIGH" -> {"progressive-high"}
      [] guid = "CONSTRAINED_HIGH" -> {"constrained-high"}
      [] OTHER -> {}

GST_ROUND_UP_16(n) == ((n + 15) \div 16) * 16

\* lines 1535-1784.  The sink caps are two structures with the same fields,
\* one for device memory and one for system memory.
ClassData(dev) ==
    IF dev.profiles.status # "NV_ENC_SUCCESS" \/ Len(dev.profiles.guids) = 0
    THEN NoClassData
    ELSE IF dev.formats.status # "NV_ENC_SUCCESS" \/ Len(dev.formats.list) = 0
    THEN NoClassData
    ELSE LET caps == [f \in DOMAIN CapDefault |-> CheckCaps(dev, f)]
                         @@ [f \in {"async_encoding_support"} |-> 0]
             formats ==
                 {"NV12" : i \in {j \in DOMAIN dev.formats.list :
                                     dev.formats.list[j] = "NV12"}}
                 \cup {"Y444" : i \in {j \in DOMAIN dev.formats.list :
                                          /\ dev.formats.list[j] = "YUV444"
                                          /\ caps["yuv444_encode"] # 0}}
             profiles ==
                 UNION {GuidProfiles(dev.profiles.guids[i]) :
                           i \in DOMAIN dev.profiles.guids}
             width == <<GST_ROUND_UP_16(caps["width_min"]), caps["width_max"]>>
             height == <<GST_ROUND_UP_16(caps["height_min"]), caps["height_max"]>>
             system_caps ==
                 [features |-> "memory:SystemMemory", format |-> formats,
                  width |-> width, height |-> height,
                  interlace_mode |-> IF caps["field_encoding"] > 0
                                     THEN {"interleaved", "mixed"}
                                     ELSE {"progressive"}]
         IN IF formats = {} THEN NoClassData
            ELSE IF profiles = {} THEN NoClassData
            ELSE [ok |-> TRUE,
                  dev_caps |-> caps,
                  sink_caps |-> <<[system_caps EXCEPT
                                      !.features = "memory:CUDAMemory"],
                                  system_caps>>,
                  src_caps |-> [width |-> width, height |-> height,
                                profile |-> profiles,
                                stream_format |-> {"avc", "byte-stream"},
                                alignment |-> "au"]]

CreateClassData ==
    /\ pc = "probe"
    /\ cdata' = ClassData(device)
    /\ pc' = IF cdata'.ok THEN "registered" ELSE "skipped"
    /\ UNCHANGED <<prm, init_param_updated, rc_param_updated, bitrate_updated,
                   prop_lock, packetized, cfg, reconfig, session, loc, notified,
                   downstream, stream_avc, info, dev_caps, nsets, nframes, snap,
                   applied, late_pre, late_post, built, bitstream, outbuf>>
    /\ UNCHANGED <<written, seq_params, output_state, device, query_caps>>
    /\ UNCHANGED <<client_vars, sink_vars>>

\* the registration of the element for one device
InitProbe ==
    /\ dev_caps = [dyn_bitrate_change |-> 1, cabac |-> 1]
    /\ prm = DefaultParams(dev_caps)
    /\ init_param_updated = FALSE
    /\ rc_param_updated = FALSE
    /\ bitrate_updated = FALSE
    /\ prop_lock = "free"
    /\ stream_avc = FALSE
    /\ packetized = FALSE
    /\ downstream = {}
    /\ info = [interlaced |-> FALSE, y444 |-> FALSE]
    /\ cfg = PresetCfg
    /\ pc = "probe"
    /\ reconfig = "NONE"
    /\ session = "none"
    /\ loc = NoLocals
    /\ notified = 0
    /\ nsets = 0
    /\ nframes = 0
    /\ snap = prm
    /\ applied = prm
    /\ late_pre = {}
    /\ late_post = {}
    /\ built = NoBuild
    /\ bitstream = NoBitstream
    /\ outbuf = <<>>
    /\ written = <<>>
    /\ seq_params = NoSequenceParams
    /\ output_state = NoOutputState
    /\ device \in Devices
    /\ cdata = NoClassData
    /\ query_caps = NoCaps
    /\ ClientIdle
    /\ SinkIdle

NextProbe == CreateClassData

SpecProbe == InitProbe /\ [][NextProbe]_vars

(***************************************************************************)
(* getcaps: the answer to a caps query on the sink pad.  Caps are the      *)
(* sequence of their structures; a structure with a field that admits no   *)
(* value is no structure.  The query has no filter and the peer does not   *)
(* restrict the geometry, so gst_video_encoder_proxy_getcaps returns the   *)
(* caps it is handed, and the template caps when it is handed NULL.        *)
(***************************************************************************)
\* gst_caps_intersect_full of the template caps with a copy of them whose
\* interlace-mode and format were set
CapsIntersect(template_caps, allowed_caps) ==
    LET both == [i \in DOMAIN template_caps |->
                    [template_caps[i] EXCEPT
                        !.format = @ \cap allowed_caps[i].format,
                        !.interlace_mode = @ \cap allowed_caps[i].interlace_mode]]
    IN SelectSeq(both, LAMBDA st : st.format # {} /\ st.interlace_mode # {})

\* lines 904-980
SupportedCapsAlwaysRestricted(ds, klass) ==
    LET profile_support_interlaced == ds \cap {"high", "main", "high-4:4:4"} # {}
        allowed_formats ==
            {"Y444" : n \in ds \cap {"high-4:4:4"}}
                \cup {"NV12" : n \in ds \ {"high-4:4:4"}}
        template_caps == klass.sink_caps
        allowed_caps ==
            [i \in DOMAIN template_caps |->
                [template_caps[i] EXCEPT
                    !.interlace_mode =
                        IF \/ klass.dev_caps["field_encoding"] = 0
                           \/ ~profile_support_interlaced
                        THEN {"progressive"} ELSE @,
                    !.format = allowed_formats]]
    IN CapsIntersect(template_caps, allowed_caps)

SupportedCaps(ds, klass) ==
    IF ds = {} THEN klass.sink_caps
    ELSE LET profile_support_interlaced ==
                 ds \cap {"high", "main", "high-4:4:4"} # {}
             allowed_formats ==
                 {"Y444" : n \in ds \cap {"high-4:4:4"}}
                     \cup {"NV12" : n \in ds \ {"high-4:4:4"}}
             template_caps == klass.sink_caps
             allowed_caps ==
                 [i \in DOMAIN template_caps |->
                     [template_caps[i] EXCEPT
                         !.interlace_mode =
                             IF \/ klass.dev_caps["field_encoding"] = 0
                                \/ ~profile_support_interlaced
                             THEN {"progressive"} ELSE @,
                         !.format = allowed_formats]]
         IN CapsIntersect(template_caps, allowed_caps)

GetCaps ==
    /\ pc = "getcaps"
    /\ query_caps' = [called |-> TRUE, caps |-> SupportedCaps(downstream, cdata)]
    /\ pc' = "queried"
    /\ UNCHANGED <<prm, init_param_updated, rc_param_updated, bitrate_updated,
                   prop_lock, packetized, cfg, reconfig, session, loc, notified,
                   downstream, stream_avc, info, dev_caps, nsets, nframes, snap,
                   applied, late_pre, late_post, built, bitstream, outbuf>>
    /\ UNCHANGED <<written, seq_params, output_state, device, cdata>>
    /\ UNCHANGED <<client_vars, sink_vars>>

\* an element registered for a device all of whose queries succeed, before
\* any format is set, with every set of profiles downstream may offer
InitCaps ==
    /\ dev_caps = [dyn_bitrate_change |-> 1, cabac |-> 1]
    /\ prm = DefaultParams(dev_caps)
    /\ init_param_updated = FALSE
    /\ rc_param_updated = FALSE
    /\ bitrate_updated = FALSE
    /\ prop_lock = "free"
    /\ stream_avc = FALSE
    /\ packetized = FALSE
    /\ downstream \in SUBSET Profiles
    /\ info = [interlaced |-> FALSE, y444 |-> FALSE]
    /\ cfg = PresetCfg
    /\ pc = "getcaps"
    /\ reconfig = "NONE"
    /\ session = "none"
    /\ loc = NoLocals
    /\ notified = 0
    /\ nsets = 0
    /\ nframes = 0
    /\ snap = prm
    /\ applied = prm
    /\ late_pre = {}
    /\ late_post = {}
    /\ built = NoBuild
    /\ bitstream = NoBitstream
    /\ outbuf = <<>>
    /\ written = <<>>
    /\ seq_params = NoSequenceParams
    /\ output_state = NoOutputState
    /\ device \in {d \in Devices : d.failed = {} /\ ClassData(d).ok}
    /\ cdata = ClassData(device)
    /\ query_caps = NoCaps
    /\ ClientIdle
    /\ SinkIdle

NextCaps == GetCaps

SpecCaps == InitCaps /\ [][NextCaps]_vars

(***************************************************************************)
(* Properties of check_reconfigure.  Between its two steps the worker      *)
(* holds prop_lock, so at pc = "cr_done" the flags are those it found at   *)
(* the frame boundary and reconfig is the decision it took on them.        *)
(***************************************************************************)
NoFlag == ~init_param_updated /\ ~rc_param_updated /\ ~bitrate_updated

\* C1: at a frame boundary, init_param_updated or rc_param_updated set gives the
\* decision FULL, whatever bitrate_updated and dyn_bitrate_change are.
C1_InitOrRcGivesFull ==
    (pc = "cr_done" /\ (init_param_updated \/ rc_param_updated))
        => reconfig = "FULL"

C1_Witness ==
    /\ pc = "cr_done"
    /\ rc_param_updated /\ ~init_param_updated /\ bitrate_updated
    /\ dev_caps.dyn_bitrate_change > 0
    /\ reconfig = "FULL"

\* C2: with only bitrate_updated set, the decision is BITRATE when the device
\* has dyn_bitrate_change > 0 and FULL when it has not.
C2_BitrateOnlyTiers ==
    (pc = "cr_done" /\ bitrate_updated /\ ~init_param_updated /\ ~rc_param_updated)
        => reconfig = (IF dev_caps.dyn_bitrate_change > 0 THEN "BITRATE" ELSE "FULL")

C2_Witness ==
    /\ pc = "cr_done"
    /\ bitrate_updated /\ ~init_param_updated /\ ~rc_param_updated
    /\ dev_caps.dyn_bitrate_change = 0
    /\ reconfig = "FULL"

\* C3: with no flag set, check_reconfigure returns NONE and no step of it changes
\* the session configuration (averageBitRate and maxBitRate included).
C3_NoFlagNoOp ==
    [][((pc = "frame" \/ pc = "cr_done") /\ NoFlag)
         => /\ cfg' = cfg
            /\ (pc = "frame" /\ pc' = "cr_done") => reconfig' = "NONE"
            /\ pc = "cr_done" => (reconfig = "NONE" /\ reconfig' = "NONE")]_vars

C3_Witness ==
    /\ pc = "cr_ret"
    /\ reconfig = "NONE"
    /\ session = "live"
    /\ NoFlag
    /\ cfg.rcParams.averageBitRate = PresetCfg.rcParams.averageBitRate

(***************************************************************************)
(* Late updates.  late_post holds the levels of the properties changed     *)
(* since the worker last cleared the flags; late_pre those changed between *)
(* the clear before it and the moment set_format took the lock.            *)
(***************************************************************************)
\* C4 as stated: after a FULL decision, every update that arrived between the
\* clear in check_reconfigure and the end of set_format still has its flag set
\* at the following frame boundary.
C4_LateUpdateKeepsFlag ==
    (pc = "frame" /\ reconfig = "FULL")
        => \A l \in late_pre \cup late_post : Flag(l)

\* C4, amended: check_reconfigure clears the flags with prop_lock held; an update
\* that arrives after that clear and before set_format takes the lock is read by
\* the rebuild, which clears its flag again; only an update that arrives after
\* set_format released the lock has its flag set at the following frame boundary.
C4_LateUpdateAmended ==
    /\ pc = "cr_done" => prop_lock = "worker"
    /\ pc = "cr_ret" => \A l \in Levels : Flag(l) <=> l \in late_post
    /\ (pc = "frame" /\ reconfig = "FULL")
          => \A l \in Levels : Flag(l) <=> l \in late_post

C4_Witness ==
    /\ pc = "frame"
    /\ reconfig = "FULL"
    /\ "UPDATE_INIT_PARAM" \in late_pre
    /\ ~init_param_updated
    /\ "UPDATE_BITRATE" \in late_post
    /\ bitrate_updated

\* what a configuration holds when it was built, or updated in place, from the
\* property struct p: every field of the build from p, the two bitrates of the
\* lightweight path apart when the property is 0
ConfigReflects(c, p) ==
    LET b == BuildAll(p, downstream, info, packetized, dev_caps).cfg IN
    /\ [c EXCEPT !.rcParams.averageBitRate = 0, !.rcParams.maxBitRate = 0]
         = [b EXCEPT !.rcParams.averageBitRate = 0, !.rcParams.maxBitRate = 0]
    /\ p.bitrate # 0 => c.rcParams.averageBitRate = p.bitrate * 1024
    /\ p.max_bitrate # 0 => c.rcParams.maxBitRate = p.max_bitrate * 1024

\* C5: no update is lost.  At every frame boundary the live configuration
\* reflects the struct as last read (applied), and every field that differs from
\* it since has the flag of its level set.
C5_NoLostUpdate ==
    pc = "frame"
        => /\ ConfigReflects(cfg, applied)
           /\ \A f \in Fields : prm[f] # applied[f] => Flag(FieldLevel(f))

C5_Witness ==
    /\ pc = "frame"
    /\ reconfig = "FULL"
    /\ prm.gop_size # applied.gop_size
    /\ init_param_updated
    /\ applied.bitrate = 1000
    /\ cfg.rcParams.averageBitRate = 1000 * 1024

\* C6: the worker reads one consistent snapshot.  The configuration set_format
\* produced is the build from the struct as it was when set_format took the
\* lock, and the two bitrates check_reconfigure wrote are those of the struct as
\* it was when check_reconfigure took the lock.
C6_ConsistentSnapshot ==
    /\ pc = "notify"
          => cfg = BuildAll(snap, downstream, info, packetized, dev_caps).cfg
    /\ (pc = "cr_ret" /\ reconfig = "BITRATE")
          => /\ cfg.rcParams.averageBitRate = snap.bitrate * 1024
             /\ cfg.rcParams.maxBitRate = snap.max_bitrate * 1024
    /\ prop_lock = "worker" => prm = [snap EXCEPT !.bframes = prm.bframes]

C6_Witness ==
    /\ pc = "notify"
    /\ reconfig = "FULL"
    /\ late_pre # {}
    /\ snap.bitrate = 1000
    /\ snap.gop_size = 30
    /\ cfg = BuildAll(snap, downstream, info, packetized, dev_caps).cfg

\* C7: when only bitrate-level properties were changed and the device has
\* dyn_bitrate_change, the frame boundary takes the BITRATE path, keeps the
\* session, and leaves bitrate_updated false and the two other flags as they
\* were, false.
C7_BitrateOnlyLightweight ==
    [][(pc = "cr_done" /\ late_post = {"UPDATE_BITRATE"}
          /\ dev_caps.dyn_bitrate_change > 0)
         => /\ reconfig = "BITRATE"
            /\ session' = session
            /\ ~bitrate_updated'
            /\ init_param_updated' = init_param_updated /\ ~init_param_updated'
            /\ rc_param_updated' = rc_param_updated /\ ~rc_param_updated']_vars

C7_Witness ==
    /\ pc = "encode"
    /\ reconfig = "BITRATE"
    /\ session = "live"
    /\ NoFlag
    /\ prm.bitrate = 1000
    /\ cfg.rcParams.averageBitRate = 1000 * 1024

(***************************************************************************)
(* Properties of the built configuration, once set_format returned TRUE.   *)
(* snap is the struct set_format read, prm the struct it left.             *)
(***************************************************************************)
Built == pc = "encode" /\ session = "live"

\* C8: gop-size < 0 gives the infinite GOP length and frameIntervalP 1; gop-size
\* 0 gives gopLength 1 and frameIntervalP 0; gop-size > 0 gives gopLength
\* gop-size and frameIntervalP bframes + 1, bframes as the build left it.
C8_GopStructure ==
    Built =>
        /\ snap.gop_size < 0
              => cfg.gopLength = [hi |-> 65535, lo |-> 65535] /\ cfg.frameIntervalP = 1
        /\ snap.gop_size = 0
              => cfg.gopLength = [hi |-> 0, lo |-> 1] /\ cfg.frameIntervalP = 0
        /\ snap.gop_size > 0
              => /\ cfg.gopLength = [hi |-> 0, lo |-> snap.gop_size]
                 /\ cfg.frameIntervalP = prm.bframes + 1

C8_Witness ==
    /\ Built
    /\ snap.gop_size = 30
    /\ prm.bframes = 2
    /\ cfg.frameIntervalP = 3
    /\ cfg.gopLength = [hi |-> 0, lo |-> 30]

\* no profile that carries B-frames is left of the downstream offer
NoBFrameProfile ==
    IF info.y444 THEN FALSE
    ELSE InterlaceFilter(downstream, info.interlaced)
            \cap {"high", "main", "progressive-high"} = {}

\* C9: with gop-size > 0 and bframes > 0 and no B-frame-capable profile, the build
\* forces bframes to 0, gives frameIntervalP 1 and emits one "bframes"
\* notification; otherwise bframes is kept and nothing is notified.
C9_BFramesForced ==
    Built =>
        IF snap.gop_size > 0 /\ snap.bframes > 0 /\ NoBFrameProfile
        THEN prm.bframes = 0 /\ cfg.frameIntervalP = 1 /\ notified = 1
        ELSE prm.bframes = snap.bframes /\ notified = 0

C9_Witness ==
    /\ Built
    /\ snap.gop_size = 30
    /\ snap.bframes = 2
    /\ downstream = {"baseline"}
    /\ prm.bframes = 0
    /\ cfg.frameIntervalP = 1
    /\ notified = 1

\* the cascade of one group: P is the P setting if set, else the I bound; B is
\* the B setting if set, else the P bound
Cascade(qp, i, p, b) ==
    /\ qp.qpIntra = [hi |-> 0, lo |-> i]
    /\ qp.qpInterP = [hi |-> 0, lo |-> IF p >= 0 THEN p ELSE i]
    /\ qp.qpInterB = [hi |-> 0, lo |-> IF b >= 0 THEN b ELSE IF p >= 0 THEN p ELSE i]

\* C10: when the I bound of a group is set, the built minQP and maxQP follow the
\* same cascade.
C10_QpCascade ==
    Built =>
        /\ prm.qp_min_i >= 0
              => /\ cfg.rcParams.enableMinQP
                 /\ Cascade(cfg.rcParams.minQP, prm.qp_min_i, prm.qp_min_p,
                            prm.qp_min_b)
        /\ prm.qp_max_i >= 0
              => /\ cfg.rcParams.enableMaxQP
                 /\ Cascade(cfg.rcParams.maxQP, prm.qp_max_i, prm.qp_max_p,
                            prm.qp_max_b)

C10_Witness ==
    /\ Built
    /\ prm.qp_min_i = 10 /\ prm.qp_min_p = 11 /\ prm.qp_min_b = -1
    /\ cfg.rcParams.minQP.qpInterB = [hi |-> 0, lo |-> 11]
    /\ prm.qp_max_i = -1

(***************************************************************************)
(* The QP properties as set_property stores them.  The values the model    *)
(* hands to qp-min-i and to qp-max-i are different, so the property a      *)
(* stored value came through can be read off the value.                    *)
(***************************************************************************)
\* C11: the max and the min fields are independent.  A value given to qp-max-i
\* is held by qp_max_i and by no min field: qp_min_i holds only values given to
\* qp-min-i, and qp_max_i only values given to qp-max-i.
C11_MaxMinIndependent ==
    /\ prm.qp_min_i \in PropValues("qp-min-i")
    /\ prm.qp_max_i \in PropValues("qp-max-i")

\* what the code does: the value given to qp-max-i is in qp_min_i, qp_max_i is
\* still at its default, and the next build enables the min bound with it
C11_Witness ==
    /\ Built
    /\ prm.qp_min_i = 40
    /\ prm.qp_max_i = DEFAULT_QP
    /\ cfg.rcParams.enableMinQP
    /\ cfg.rcParams.minQP.qpIntra = [hi |-> 0, lo |-> 40]
    /\ ~cfg.rcParams.enableMaxQP

\* C12: the built rateControlMode is ConstantQP for rc-mode Default with
\* qp-const-i >= 0, the device default for rc-mode Default with qp-const-i
\* unset, and the mode asked for with every other rc-mode, whatever qp-const-i.
C12_DefaultBecomesConstQP ==
    Built =>
        cfg.rcParams.rateControlMode =
            CASE prm.rc_mode = "DEFAULT" /\ prm.qp_const_i >= 0
                    -> "NV_ENC_PARAMS_RC_CONSTQP"
              [] prm.rc_mode = "DEFAULT" /\ prm.qp_const_i < 0
                    -> "NV_ENC_PARAMS_RC_DEFAULT"
              [] prm.rc_mode = "CONSTQP" -> "NV_ENC_PARAMS_RC_CONSTQP"
              [] prm.rc_mode = "VBR" -> "NV_ENC_PARAMS_RC_VBR"
              [] prm.rc_mode = "CBR" -> "NV_ENC_PARAMS_RC_CBR"

C12_Witness ==
    /\ Built
    /\ prm.rc_mode = "DEFAULT"
    /\ prm.qp_const_i = 20
    /\ cfg.rcParams.rateControlMode = "NV_ENC_PARAMS_RC_CONSTQP"

\* const-quality values on the 1/256 grid are the even counts of 1/512 (32.5 is
\* the count 65 * 256)
OnGrid(cq) == cq > 0 /\ cq <= 51 * ConstQualityDen /\ cq % 2 = 0

\* C13: for a non-zero const-quality q on the 1/256 grid, targetQuality and
\* targetQualityLSB are the high and the low byte of q * 256; q = 32.5 gives 32
\* and 128.
C13_ConstQualityFixedPoint ==
    (Built /\ OnGrid(prm.const_quality)) =>
        /\ cfg.rcParams.targetQuality * 256 + cfg.rcParams.targetQualityLSB
              = prm.const_quality \div 2
        /\ cfg.rcParams.targetQualityLSB \in 0..255
        /\ cfg.rcParams.targetQuality = prm.const_quality \div ConstQualityDen
        /\ prm.const_quality = 65 * 256
              => /\ cfg.rcParams.targetQuality = 32
                 /\ cfg.rcParams.targetQualityLSB = 128

C13_Witness ==
    /\ Built
    /\ prm.const_quality = 65 * 256
    /\ cfg.rcParams.targetQuality = 32
    /\ cfg.rcParams.targetQualityLSB = 128

\* C14: the entropy coding mode is CABAC only on a device with CABAC, a selected
\* profile other than baseline and the cabac property true; on a device without
\* CABAC, or with the baseline profile selected, it is the device's auto-select.
C14_EntropyMode ==
    Built =>
        /\ cfg.h264Config.entropyCodingMode = "CABAC"
              => /\ dev_caps.cabac > 0
                 /\ cfg.profileGUID # "BASELINE"
                 /\ prm.cabac
        /\ (dev_caps.cabac = 0 \/ cfg.profileGUID = "BASELINE")
              => cfg.h264Config.entropyCodingMode = "AUTOSELECT"

C14_Witness ==
    /\ Built
    /\ dev_caps.cabac > 0
    /\ prm.cabac
    /\ cfg.profileGUID = "BASELINE"
    /\ cfg.h264Config.entropyCodingMode = "AUTOSELECT"

\* C15: with repeat-sequence-header, disableSPSPPS is 0 and repeatSPSPPS is 1 in
\* both stream formats; without it, disableSPSPPS is 1 for packetized output and
\* 0 for byte-stream output.
C15_SequenceHeaderPolicy ==
    Built =>
        IF prm.repeat_sequence_header
        THEN cfg.h264Config.disableSPSPPS = 0 /\ cfg.h264Config.repeatSPSPPS = 1
        ELSE cfg.h264Config.disableSPSPPS = (IF stream_avc THEN 1 ELSE 0)

C15_Witness ==
    /\ Built
    /\ stream_avc
    /\ packetized
    /\ prm.repeat_sequence_header
    /\ cfg.h264Config.disableSPSPPS = 0
    /\ cfg.h264Config.repeatSPSPPS = 1

(***************************************************************************)
(* Two set_format calls in a row.  built holds what the first call         *)
(* returned; the second call ran on the struct the first one left, with    *)
(* the same peer and the same input format.                                *)
(***************************************************************************)
\* C16: the second of two set_format calls in a row returns the configuration
\* the first one returned and leaves the struct as the first one left it, also
\* when the first call forced bframes to 0.
C16_BuilderIdempotent ==
    (Built /\ built # NoBuild) =>
        /\ cfg = built.cfg
        /\ prm = built.prm
        /\ notified = 0

C16_Witness ==
    /\ Built
    /\ built # NoBuild
    /\ built.bframe_aborted
    /\ built.prm.bframes = 0
    /\ built.cfg.frameIntervalP = 1
    /\ cfg = built.cfg

(***************************************************************************)
(* Negotiation.  pc = "error" with session = "failed" is set_format having *)
(* returned FALSE.                                                         *)
(***************************************************************************)
ProgressiveOnly ==
    {"progressive-high", "constrained-high", "constrained-baseline", "baseline"}

\* C17: with Y444 input set_format fails when downstream does not offer
\* high-4:4:4; when it succeeds the 4:4:4 profile is selected, chromaFormatIDC is
\* 3 and the B-frames asked for are kept (B-frame eligibility is true).
C17_Y444Negotiation ==
    info.y444 =>
        /\ (pc # "negotiate" /\ "high-4:4:4" \notin downstream)
              => (pc = "error" /\ session = "failed")
        /\ Built
              => /\ "high-4:4:4" \in downstream
                 /\ cfg.profileGUID = "HIGH_444"
                 /\ cfg.h264Config.chromaFormatIDC = 3
                 /\ loc.downstream_supports_bframe
                 /\ prm.bframes = snap.bframes
                 /\ notified = 0

C17_Witness ==
    /\ Built
    /\ info.y444
    /\ downstream = {"high-4:4:4"}
    /\ cfg.profileGUID = "HIGH_444"
    /\ cfg.h264Config.chromaFormatIDC = 3
    /\ snap.gop_size = 30
    /\ prm.bframes = 2
    /\ cfg.frameIntervalP = 3

\* C18: with interlaced input the progressive-only profiles are removed from the
\* downstream set before selection; set_format fails when none remains; and no
\* removed profile is the selected one.
C18_InterlaceFilter ==
    info.interlaced =>
        /\ pc # "negotiate" => loc.downstream_profiles \cap ProgressiveOnly = {}
        /\ (pc # "negotiate" /\ downstream \subseteq ProgressiveOnly)
              => (pc = "error" /\ session = "failed")
        /\ Built
              => cfg.profileGUID
                    \notin {"BASELINE", "PROGRESSIVE_HIGH", "CONSTRAINED_HIGH"}

C18_Witness ==
    /\ Built
    /\ info.interlaced
    /\ downstream = {"baseline", "constrained-high", "main"}
    /\ loc.downstream_profiles = {"main"}
    /\ cfg.profileGUID = "MAIN"

\* the priority order of the specification
PriorityOrder == <<"main", "high", "progressive-high", "constrained-high",
                   "constrained-baseline", "baseline", "high-4:4:4">>

PriorityPick(S) ==
    LET i == CHOOSE k \in 1..Len(PriorityOrder) :
                 /\ PriorityOrder[k] \in S
                 /\ \A j \in 1..(k - 1) : PriorityOrder[j] \notin S
    IN PriorityOrder[i]

\* the profile GUID of a profile name
ProfileGuid(n) ==
    CASE n = "main" -> "MAIN"
      [] n = "high" -> "HIGH"
      [] n = "progressive-high" -> "PROGRESSIVE_HIGH"
      [] n = "constrained-high" -> "CONSTRAINED_HIGH"
      [] n = "constrained-baseline" -> "BASELINE"
      [] n = "baseline" -> "BASELINE"
      [] n = "high-4:4:4" -> "HIGH_444"

\* C19: with frameIntervalP > 1 the selected profile is a B-frame-capable
\* profile downstream offers; otherwise it is the first entry of the order main,
\* high, progressive-high, constrained-high, constrained-baseline, baseline,
\* 4:4:4 that the filtered downstream set holds.  (Stated for input other than
\* Y444, where the 4:4:4 profile is fixed by the negotiation.)
C19_PriorityOrderSelection ==
    (Built /\ ~info.y444) =>
        IF cfg.frameIntervalP > 1
        THEN \E n \in loc.downstream_profiles \cap {"main", "high", "progressive-high"} :
                 cfg.profileGUID = ProfileGuid(n)
        ELSE cfg.profileGUID = ProfileGuid(PriorityPick(loc.downstream_profiles))

\* what the code does: the first profile of the std::set is "high", which no
\* branch of the selection handles
C19_Witness ==
    /\ Built
    /\ ~info.y444
    /\ loc.downstream_profiles = {"high", "main"}
    /\ cfg.frameIntervalP = 1
    /\ cfg.profileGUID = "AUTOSELECT"

(***************************************************************************)
(* Packaging.                                                              *)
(***************************************************************************)
\* the bytes of a buffer: its memories one after the other
RECURSIVE BufferBytes(_)
BufferBytes(buffer) ==
    IF buffer = <<>> THEN <<>> ELSE Head(buffer) \o BufferBytes(Tail(buffer))

\* C20: in byte-stream mode the emitted buffer holds exactly the bytes the
\* encoder wrote, bitstreamSizeInBytes of them, in one piece.
C20_ByteStreamPassThrough ==
    (pc = "pushed" /\ ~packetized) =>
        /\ Len(BufferBytes(outbuf)) = bitstream.bitstreamSizeInBytes
        /\ \A i \in 1..bitstream.bitstreamSizeInBytes :
              BufferBytes(outbuf)[i] = bitstream.bitstreamBufferPtr[i]
        /\ Len(outbuf) = 1

C20_Witness ==
    /\ pc = "pushed"
    /\ ~packetized
    /\ bitstream.bitstreamBufferPtr = <<0, 0, 1, 2>>
    /\ bitstream.bitstreamSizeInBytes = 3
    /\ outbuf = <<(<<0, 0, 1>>)>>

(***************************************************************************)
(* The packetized packaging of a bitstream the device filled with units.   *)
(* A unit of the stream has a header byte and at least one more byte, does *)
(* not end in a zero and holds no start code.                              *)
(***************************************************************************)
WellFormedUnit(u) ==
    /\ Len(u) >= 2
    /\ u[Len(u)] # 0
    /\ \A i \in 1..(Len(u) - 2) : ~(u[i] = 0 /\ u[i + 1] = 0 /\ u[i + 2] \in {0, 1})

WellFormedStream == written # <<>> /\ \A i \in 1..Len(written) : WellFormedUnit(written[i].unit)

RECURSIVE Payload(_)
Payload(w) == IF w = <<>> THEN <<>> ELSE Head(w).unit \o Payload(Tail(w))

\* the memories of a buffer without their first four bytes, concatenated
RECURSIVE StripPrefixes(_)
StripPrefixes(buf) ==
    IF buf = <<>> THEN <<>>
    ELSE SubSeq(Head(buf), 5, Len(Head(buf))) \o StripPrefixes(Tail(buf))

\* C21: in packetized mode the buffer made from a bitstream of start-code
\* delimited units has one memory per unit, in the order of the units, each
\* the unit's size as four big-endian bytes followed by the unit's bytes;
\* without the prefixes the memories concatenate to the units' bytes.
C21_PacketizedRoundTrip ==
    (pc = "pushed" /\ packetized /\ WellFormedStream) =>
        /\ Len(outbuf) = Len(written)
        /\ \A i \in 1..Len(written) :
              LET u == written[i].unit IN
              outbuf[i] = <<0, 0, 0, Len(u)>> \o u
        /\ StripPrefixes(outbuf) = Payload(written)

C21_Witness ==
    /\ pc = "pushed"
    /\ packetized
    /\ WellFormedStream
    /\ Len(written) = 2
    /\ written[2].sc = <<0, 0, 0, 1>>
    /\ written[1].unit # written[2].unit
    /\ Len(outbuf) = 2

(***************************************************************************)
(* Properties of set_output_state.  written holds the units of the         *)
(* sequence header the device returned.                                    *)
(***************************************************************************)
OutputStateSet == output_state.called

Published == OutputStateSet /\ output_state.ret

\* C22: the codec description built in packetized mode is the byte 1, the
\* three bytes after the header byte of the first unit, the bytes 0xff and
\* 0xe1, the first unit after its size as two big-endian bytes, the byte 1,
\* and the second unit after its size as two big-endian bytes: 11 bytes and
\* the two units.
C22_CodecDataLayout ==
    (Published /\ packetized) =>
        /\ Len(written) = 2
        /\ LET sps == written[1].unit
               pps == written[2].unit
               codec_data == output_state.caps[1].codec_data
           IN /\ codec_data = <<1, sps[2], sps[3], sps[4], 255, 225, 0, Len(sps)>>
                                  \o sps \o <<1, 0, Len(pps)>> \o pps
              /\ Len(codec_data) = 11 + Len(sps) + Len(pps)

C22_Witness ==
    /\ Published
    /\ packetized
    /\ written[1] = [sc |-> <<0, 0, 0, 1>>, unit |-> <<103, 100, 0, 31>>]
    /\ written[2] = [sc |-> <<0, 0, 0, 1>>, unit |-> <<104, 206>>]
    /\ Len(output_state.caps[1].codec_data) = 17

SpsNalu == IdentifyNalu(seq_params.spspps, 0, seq_params.seq_size)

PpsNalu ==
    IdentifyNaluUnchecked(seq_params.spspps, SpsNalu.offset + SpsNalu.size,
                          seq_params.seq_size)

NothingPublished == ~output_state.ret /\ output_state.caps = <<>>

\* C23 as stated: when the sequence header is not retrieved, or its first
\* unit is not identified or is shorter than 4 bytes, or the unit after it is
\* not identified, set_output_state fails and publishes nothing.
C23_HeaderFailure ==
    (OutputStateSet
        /\ \/ seq_params.status # "NV_ENC_SUCCESS"
           \/ SpsNalu.rst # "OK"
           \/ SpsNalu.size < 4
           \/ PpsNalu.rst # "OK")
        => NothingPublished

\* C23 as amended: the unit after the first one has to be identified only in
\* packetized mode.
C23_HeaderFailureAmended ==
    (OutputStateSet
        /\ \/ seq_params.status # "NV_ENC_SUCCESS"
           \/ SpsNalu.rst # "OK"
           \/ SpsNalu.size < 4
           \/ (PpsNalu.rst # "OK" /\ packetized))
        => NothingPublished

C23_Witness ==
    /\ OutputStateSet
    /\ packetized
    /\ seq_params.status = "NV_ENC_SUCCESS"
    /\ SpsNalu.rst = "OK"
    /\ SpsNalu.size >= 4
    /\ PpsNalu.rst # "OK"
    /\ NothingPublished
    /\ pc = "error"

\* a buffer whose memories each start with the 4-byte size of what follows
LengthPrefixed(buf) ==
    \A i \in 1..Len(buf) :
        /\ Len(buf[i]) >= 4
        /\ SubSeq(buf[i], 1, 4) = <<0, 0, 0, Len(buf[i]) - 4>>

\* C28: the published caps hold a codec description exactly when the
\* encoder is packetized, their stream format is avc when it is and
\* byte-stream when it is not, and the buffers made afterwards are length
\* prefixed exactly when it is.
C28_PackagingMatchesCaps ==
    Published =>
        /\ Len(output_state.caps) = 1
        /\ (output_state.caps[1].codec_data # <<>>) <=> packetized
        /\ output_state.caps[1].stream_format = "avc" <=> packetized
        /\ output_state.caps[1].stream_format = "byte-stream" <=> ~packetized
        /\ pc = "pushed" => (LengthPrefixed(outbuf) <=> packetized)

C28_Witness ==
    /\ Published
    /\ pc = "pushed"
    /\ packetized
    /\ output_state.caps[1].stream_format = "avc"
    /\ Len(outbuf) = 2

\* the profile the first unit of the sequence header names
ParsedProfile == H264GetProfile(SubSeq(written[1].unit, 2, 4))

\* C29: the profile of the output caps comes from the sequence header: the
\* parsed name when downstream offers it, baseline when the parsed name is
\* constrained-baseline and downstream offers baseline and not
\* constrained-baseline; when downstream offers profiles, a profile named in
\* the caps is one of them.
C29_ProfileFromHeader ==
    Published =>
        LET profile == output_state.caps[1].profile IN
        /\ ParsedProfile \in downstream => profile = ParsedProfile
        /\ (/\ ParsedProfile = "constrained-baseline"
            /\ "baseline" \in downstream
            /\ "constrained-baseline" \notin downstream) => profile = "baseline"
        /\ (downstream # {} /\ profile # "none") => profile \in downstream

C29_Witness ==
    /\ Published
    /\ ParsedProfile = "constrained-baseline"
    /\ downstream = {"baseline", "main"}
    /\ output_state.caps[1].profile = "baseline"

(***************************************************************************)
(* Properties of create_class_data.                                        *)
(***************************************************************************)
Probed == pc \in {"registered", "skipped"} /\ device # NoDevice

\* the profiles and the input formats of a device the element can use
UsableProfiles ==
    IF device.profiles.status # "NV_ENC_SUCCESS" THEN {}
    ELSE {device.profiles.guids[i] : i \in DOMAIN device.profiles.guids}
             \cap {"BASELINE", "MAIN", "HIGH", "HIGH_444", "PROGRESSIVE_HIGH",
                   "CONSTRAINED_HIGH"}

UsableFormats ==
    IF device.formats.status # "NV_ENC_SUCCESS" THEN {}
    ELSE {device.formats.list[i] : i \in DOMAIN device.formats.list}
             \cap ({"NV12"} \cup IF /\ "yuv444_encode" \notin device.failed
                                    /\ device.value["yuv444_encode"] # 0
                                 THEN {"YUV444"} ELSE {})

C27_LazyNegotiation ==
    (query_caps.called /\ downstream = {}) =>
        /\ query_caps.caps = cdata.sink_caps
        /\ Len(query_caps.caps) = 2
        /\ \A i \in 1..2 :
              /\ query_caps.caps[i].format # {}
              /\ query_caps.caps[i].interlace_mode # {}

C27_Witness ==
    /\ query_caps.called
    /\ downstream = {}
    /\ query_caps.caps[2].format = {"NV12", "Y444"}
    /\ query_caps.caps[2].interlace_mode = {"interleaved", "mixed"}

(***************************************************************************)
(* Properties of the negotiation of set_format.                            *)
(***************************************************************************)
BaselineClass == {"baseline", "constrained-baseline"}

\* C25: the negotiation finds downstream eligible for B-frames only if the
\* filtered downstream set holds a profile other than baseline and
\* constrained-baseline.
C25_BFrameEligibility ==
    pc # "negotiate" =>
        (loc.downstream_supports_bframe
            => loc.downstream_profiles \ BaselineClass # {})

C25_Witness ==
    /\ Built
    /\ loc.downstream_profiles = BaselineClass
    /\ ~loc.downstream_supports_bframe
    /\ cfg.frameIntervalP = 1

\* C26: when set_format succeeds the profile of the configuration is the
\* profile of a name in the filtered downstream set, and when that set is
\* empty set_format fails.
C26_WithinDownstreamOffer ==
    /\ Built => \E n \in loc.downstream_profiles : cfg.profileGUID = ProfileGuid(n)
    /\ (pc # "negotiate" /\ InterlaceFilter(downstream, info.interlaced) = {})
          => (pc = "error" /\ session = "failed")

\* what the code does: downstream offers high alone and the configuration
\* leaves the choice of the profile to the device
C26_Witness ==
    /\ Built
    /\ downstream = {"high"}
    /\ loc.downstream_profiles = {"high"}
    /\ cfg.profileGUID = "AUTOSELECT"

(***************************************************************************)
(* Properties of set_property over every property.                         *)
(***************************************************************************)
\* the level the specification gives each property
ClaimLevel(p) ==
    CASE p \in {"bitrate", "max-bitrate"} -> "UPDATE_BITRATE"
      [] p \in {"preset", "weighted-pred", "gop-size", "bframes", "rc-lookahead",
                "aud", "cabac", "repeat-sequence-header"} -> "UPDATE_INIT_PARAM"
      [] p \in {"rc-mode", "qp-const-i", "qp-const-p", "qp-const-b", "qp-min-i",
                "qp-min-p", "qp-min-b", "qp-max-i", "qp-max-p", "qp-max-b",
                "vbv-buffer-size", "i-adapt", "b-adapt", "spatial-aq",
                "temporal-aq", "aq-strength", "zerolatency", "nonref-p",
                "strict-gop", "const-quality"} -> "UPDATE_RC_PARAM"

\* C30: a set_property that changes the value of a property sets the flag
\* of the property's level and no other flag, and no set_property clears a
\* flag.
C30_OneLevelPerChange ==
    [][\A p \in Props : \A v \in AllPropValues(p) :
          SetProperty(p, v) =>
              /\ \A l \in Levels : Flag(l) => Flag(l)'
              /\ prm[GetField(p)] # v =>
                    /\ Flag(ClaimLevel(p))'
                    /\ \A l \in Levels \ {ClaimLevel(p)} : Flag(l)' = Flag(l)]_vars

\* the decision check_reconfigure takes from the flags as they are
DecisionNow ==
    ReconfigDecision(init_param_updated, rc_param_updated, bitrate_updated,
                     dev_caps.dyn_bitrate_change)

\* C31: a set_property with the value the property already holds changes no
\* parameter and sets no flag, so the decision of the next frame boundary is
\* what it was, NONE when no flag was set.
C31_SameValueNoOp ==
    [][\A p \in Props : \A v \in AllPropValues(p) :
          (SetProperty(p, v) /\ prm[GetField(p)] = v) =>
              /\ prm' = prm
              /\ \A l \in Levels : Flag(l)' = Flag(l)
              /\ DecisionNow' = DecisionNow]_vars


(***************************************************************************)
(* The bitrate path of check_reconfigure against set_format.               *)
(***************************************************************************)
\* the bitrates set_format writes from the parameters (lines 1131-1136), on
\* top of the preset configuration it starts from
RebuildBitrates == RcBitrates(PresetCfg.rcParams, prm)

\* C32: on the BITRATE path the averageBitRate and maxBitRate check_reconfigure
\* leaves in the config are the ones set_format would produce from the same
\* parameters, for every bitrate and max-bitrate including 0.
C32_BitrateUpdateMatchesRebuild ==
    [][(CheckReconfigureDone /\ reconfig = "BITRATE") =>
          /\ cfg'.rcParams.averageBitRate = RebuildBitrates.averageBitRate
          /\ cfg'.rcParams.maxBitRate = RebuildBitrates.maxBitRate]_vars


(***************************************************************************)
(* The QP bounds of a built config.                                        *)
(***************************************************************************)
\* a uint32 QP field holding a valid H.264 quantizer
ValidQP(q) == q.hi = 0 /\ q.lo \in 0..51

ValidQPGroup(g) == ValidQP(g.qpIntra) /\ ValidQP(g.qpInterP) /\ ValidQP(g.qpInterB)

\* C33: in a built config enableMaxQP is set only if qp-max-i >= 0, and then
\* the three maxQP fields are valid QPs; likewise enableMinQP and minQP with
\* qp-min-i; in every rate-control mode, ConstantQP with qp-const-i included.
C33_QPBoundsValid ==
    Built =>
        /\ cfg.rcParams.enableMaxQP =>
              prm.qp_max_i >= 0 /\ ValidQPGroup(cfg.rcParams.maxQP)
        /\ cfg.rcParams.enableMinQP =>
              prm.qp_min_i >= 0 /\ ValidQPGroup(cfg.rcParams.minQP)

\* a built ConstantQP config with qp-const-i set and qp-max-i unset
C33_Witness ==
    /\ Built
    /\ EffectiveRcMode(prm) = "CONSTQP"
    /\ prm.qp_const_i >= 0
    /\ prm.qp_max_i < 0


(***************************************************************************)
(* B-frames and the selected profile.                                      *)
(***************************************************************************)
BFrameProfiles == {"MAIN", "HIGH", "PROGRESSIVE_HIGH", "HIGH_444"}

\* C34: whenever set_format succeeds with frameIntervalP > 1 the selected
\* profile is main, high, progressive-high or high-4:4:4, never baseline,
\* constrained-high or auto-select.
C34_BFramesNeedCapableProfile ==
    (Built /\ cfg.frameIntervalP > 1) => cfg.profileGUID \in BFrameProfiles

\* a built config with B-frames where the first downstream profile on its own
\* would have selected baseline
C34_Witness ==
    /\ Built
    /\ cfg.frameIntervalP > 1
    /\ Begin(downstream) \in {"baseline", "constrained-baseline"}
    /\ cfg.profileGUID \in BFrameProfiles


(***************************************************************************)
(* prop_lock over set_property, check_reconfigure and set_format.          *)
(***************************************************************************)
\* the positions inside a critical section of the streaming thread: set_format
\* between lines 1044 and 1290, check_reconfigure between 1509 and 1530
LockedPositions == {"gop", "rc", "codec", "cr_done"}

\* set_format returning FALSE at line 1098
PresetConfigFails == SetFormatLock /\ pc' = "error"

\* C35: prop_lock is held only inside set_property, check_reconfigure and
\* set_format, and free at every return of theirs, so that set_property and
\* the next frame boundary can take it; set_format failing to obtain the preset
\* configuration returns with the lock free and every dirty flag as it was.
C35_LockNeverLeftHeld ==
    /\ [](prop_lock = "worker" <=> pc \in LockedPositions)
    /\ [](pc \notin LockedPositions => SetPropertyCanLock)
    /\ [][PresetConfigFails =>
             /\ prop_lock' = "free"
             /\ \A l \in Levels : Flag(l)' = Flag(l)]_vars

\* set_format has failed on the preset configuration with a dirty flag set
C35_Witness ==
    /\ pc = "error"
    /\ Negotiate(downstream, info).ok
    /\ prop_lock = "free"
    /\ rc_param_updated


\* the encoder before anything has touched it
EncoderIdle ==
    /\ dev_caps = [dyn_bitrate_change |-> 0, cabac |-> 1]
    /\ prm = DefaultParams(dev_caps)
    /\ init_param_updated = FALSE
    /\ rc_param_updated = FALSE
    /\ bitrate_updated = FALSE
    /\ prop_lock = "free"
    /\ packetized = FALSE
    /\ pc = "negotiate"
    /\ cfg = PresetCfg
    /\ reconfig = "NONE"
    /\ session = "none"
    /\ loc = NoLocals
    /\ notified = 0
    /\ downstream = {}
    /\ stream_avc = FALSE
    /\ info = [interlaced |-> FALSE, y444 |-> FALSE]
    /\ nsets = 0
    /\ nframes = 0
    /\ snap = prm
    /\ applied = prm
    /\ late_pre = {}
    /\ late_post = {}
    /\ built = NoBuild
    /\ bitstream = NoBitstream
    /\ outbuf = <<>>
    /\ written = <<>>
    /\ seq_params = NoSequenceParams
    /\ output_state = NoOutputState
    /\ device = NoDevice
    /\ cdata = NoClassData
    /\ query_caps = NoCaps

(***************************************************************************)
(* GstWasapi2Client (gstwasapi2client.cpp): the activation of the audio    *)
(* device.  Three threads touch activate_state: the caller of              *)
(* gst_wasapi2_client_new and of ensure_activation, the thread of          *)
(* gst_wasapi2_client_thread_func, and the device worker thread that runs  *)
(* ActivateCompleted.  A section under init_lock is one step; the test and *)
(* the write of activate_async are under self->lock, which nothing else    *)
(* that touches activate_state takes, so they are two steps.               *)
(***************************************************************************)
MaxCalls == 2

Callers == {"worker", "user"}

\* what GetActivateResult and the cast to IAudioClient can give (lines 123-140)
ActivateResults == {"audio_client", "no_result", "op_failed", "no_interface"}

\* threads blocked in g_cond_wait (&init_cond) are woken by g_cond_broadcast
Broadcast(e) ==
    [t \in Callers |-> IF e[t].pc = "blocked" THEN [e[t] EXCEPT !.pc = "locked"]
                       ELSE e[t]]

\* gst_wasapi2_client_new up to g_object_new: init sets INIT (line 345),
\* constructed starts the thread (lines 364-365)
ClientNew ==
    /\ new_pc = "new"
    /\ activate_state' = "INIT"
    /\ thread_pc' = "make"
    /\ new_pc' = "constructing"
    /\ UNCHANGED <<audio_client, dispatcher, saw_init, async_op, new_result, ens,
                   assert_failed, loop_running, ncalls>>
    /\ UNCHANGED <<encoder_vars, sink_vars>>

\* lines 366-368: constructed returns once the main loop runs
Constructed ==
    /\ new_pc = "constructing"
    /\ loop_running
    /\ new_pc' = "constructed"
    /\ UNCHANGED <<activate_state, audio_client, dispatcher, thread_pc, saw_init,
                   async_op, new_result, ens, assert_failed, loop_running, ncalls>>
    /\ UNCHANGED <<encoder_vars, sink_vars>>

\* lines 967-976: the object is dropped when activate_state reads FAILED
ClientNewReturn ==
    /\ new_pc = "constructed"
    /\ new_result' = IF activate_state = "FAILED" THEN "null" ELSE "object"
    /\ new_pc' = "returned"
    /\ UNCHANGED <<activate_state, audio_client, dispatcher, thread_pc, saw_init,
                   async_op, ens, assert_failed, loop_running, ncalls>>
    /\ UNCHANGED <<encoder_vars, sink_vars>>

MakeActivatorLeavesInit ==
    /\ thread_pc = "make"
    /\ \/ thread_pc' = "activate_async"
       \/ thread_pc' = "run_loop"
    /\ UNCHANGED <<activate_state, audio_client, dispatcher, saw_init, async_op,
                   new_pc, new_result, ens, assert_failed, loop_running, ncalls>>
    /\ UNCHANGED <<encoder_vars, sink_vars>>

\* thread_func, lines 804-812: without an activator the state is FAILED and
\* the thread goes to run_loop
MakeActivator ==
    /\ thread_pc = "make"
    /\ \/ /\ thread_pc' = "activate_async"
          /\ UNCHANGED activate_state
       \/ /\ activate_state' = "FAILED"
          /\ thread_pc' = "run_loop"
    /\ UNCHANGED <<audio_client, dispatcher, saw_init, async_op, new_pc, new_result,
                   ens, assert_failed, loop_running, ncalls>>
    /\ UNCHANGED <<encoder_vars, sink_vars>>

\* activate_async, lines 569-752 and 770-773: the device is looked up and
\* ActivateDeviceAsync called; on failure the state is FAILED.  On success the
\* operation is under way; behind a dispatcher the work item may fail later,
\* and then no completion is ever delivered.
ActivateAsyncStart ==
    /\ thread_pc = "activate_async"
    /\ \/ /\ async_op' \in {"pending"} \cup (IF dispatcher THEN {"never"} ELSE {})
          /\ thread_pc' = "test"
          /\ UNCHANGED activate_state
       \/ /\ activate_state' = "FAILED"
          /\ thread_pc' = "after_async"
          /\ UNCHANGED async_op
    /\ UNCHANGED <<audio_client, dispatcher, saw_init, new_pc, new_result, ens,
                   assert_failed, loop_running, ncalls>>
    /\ UNCHANGED <<encoder_vars, sink_vars>>

\* line 763-764: under self->lock, the test of activate_state
ActivateAsyncTest ==
    /\ thread_pc = "test"
    /\ saw_init' = (activate_state = "INIT")
    /\ thread_pc' = "set"
    /\ UNCHANGED <<activate_state, audio_client, dispatcher, async_op, new_pc,
                   new_result, ens, assert_failed, loop_running, ncalls>>
    /\ UNCHANGED <<encoder_vars, sink_vars>>

\* lines 765-768: the write of WAIT when the test saw INIT
ActivateAsyncSet ==
    /\ thread_pc = "set"
    /\ activate_state' = IF saw_init THEN "WAIT" ELSE activate_state
    /\ thread_pc' = "after_async"
    /\ UNCHANGED <<audio_client, dispatcher, saw_init, async_op, new_pc, new_result,
                   ens, assert_failed, loop_running, ncalls>>
    /\ UNCHANGED <<encoder_vars, sink_vars>>

\* thread_func, lines 814-822: without a dispatcher the thread waits for the
\* activation itself
ThreadAfterAsync ==
    /\ thread_pc = "after_async"
    /\ IF dispatcher
       THEN /\ thread_pc' = "run_loop"
            /\ UNCHANGED ens
       ELSE /\ thread_pc' = "ensure"
            /\ ens' = [ens EXCEPT !["worker"].pc = "assert"]
    /\ UNCHANGED <<activate_state, audio_client, dispatcher, saw_init, async_op,
                   new_pc, new_result, assert_failed, loop_running, ncalls>>
    /\ UNCHANGED <<encoder_vars, sink_vars>>

ThreadEnsureReturned ==
    /\ thread_pc = "ensure"
    /\ ens["worker"].pc = "returned"
    /\ thread_pc' = "run_loop"
    /\ UNCHANGED <<activate_state, audio_client, dispatcher, saw_init, async_op,
                   new_pc, new_result, ens, assert_failed, loop_running, ncalls>>
    /\ UNCHANGED <<encoder_vars, sink_vars>>

\* lines 824-834 and main_loop_running_cb (465-476): the loop runs and the
\* constructing thread is signalled
RunLoop ==
    /\ thread_pc = "run_loop"
    /\ loop_running' = TRUE
    /\ thread_pc' = "looping"
    /\ UNCHANGED <<activate_state, audio_client, dispatcher, saw_init, async_op,
                   new_pc, new_result, ens, assert_failed, ncalls>>
    /\ UNCHANGED <<encoder_vars, sink_vars>>

\* ActivateCompleted (lines 104-152) calling on_device_activated (477-494):
\* whatever the result, the state is recorded under init_lock and the waiters
\* are woken
ActivateCompleted ==
    /\ async_op = "pending"
    /\ \E r \in ActivateResults :
          /\ audio_client' = (r = "audio_client")
          /\ activate_state' = IF r = "audio_client" THEN "DONE" ELSE "FAILED"
    /\ ens' = Broadcast(ens)
    /\ async_op' = "delivered"
    /\ UNCHANGED <<dispatcher, thread_pc, saw_init, new_pc, new_result,
                   assert_failed, loop_running, ncalls>>
    /\ UNCHANGED <<encoder_vars, sink_vars>>

\* a user calls ensure_activation on the object gst_wasapi2_client_new returned
UserEnsure ==
    /\ new_result = "object"
    /\ ens["user"].pc \in {"out", "returned"}
    /\ ncalls < MaxCalls
    /\ ncalls' = ncalls + 1
    /\ ens' = [ens EXCEPT !["user"].pc = "assert"]
    /\ UNCHANGED <<activate_state, audio_client, dispatcher, thread_pc, saw_init,
                   async_op, new_pc, new_result, assert_failed, loop_running>>
    /\ UNCHANGED <<encoder_vars, sink_vars>>

\* ensure_activation, line 895: g_assert (activate_state != INIT)
EnsureAssert(t) ==
    /\ ens[t].pc = "assert"
    /\ assert_failed' = (assert_failed \/ activate_state = "INIT")
    /\ ens' = [ens EXCEPT ![t].pc = IF activate_state = "INIT" THEN "aborted"
                                    ELSE "locked"]
    /\ UNCHANGED <<activate_state, audio_client, dispatcher, thread_pc, saw_init,
                   async_op, new_pc, new_result, loop_running, ncalls>>
    /\ UNCHANGED <<encoder_vars, sink_vars>>

\* lines 897-900: under init_lock, wait while the state is WAIT
EnsureWait(t) ==
    /\ ens[t].pc = "locked"
    /\ ens' = [ens EXCEPT ![t].pc = IF activate_state = "WAIT" THEN "blocked"
                                    ELSE "unlocked"]
    /\ UNCHANGED <<activate_state, audio_client, dispatcher, thread_pc, saw_init,
                   async_op, new_pc, new_result, assert_failed, loop_running,
                   ncalls>>
    /\ UNCHANGED <<encoder_vars, sink_vars>>

\* line 902
EnsureReturn(t) ==
    /\ ens[t].pc = "unlocked"
    /\ ens' = [ens EXCEPT ![t] = [pc |-> "returned",
                                  ret |-> (activate_state = "DONE")]]
    /\ UNCHANGED <<activate_state, audio_client, dispatcher, thread_pc, saw_init,
                   async_op, new_pc, new_result, assert_failed, loop_running,
                   ncalls>>
    /\ UNCHANGED <<encoder_vars, sink_vars>>

InitActivate ==
    /\ EncoderIdle
    /\ SinkIdle
    /\ activate_state = "INIT"
    /\ audio_client = FALSE
    /\ dispatcher \in BOOLEAN
    /\ thread_pc = "none"
    /\ saw_init = FALSE
    /\ async_op = "none"
    /\ new_pc = "new"
    /\ new_result = "none"
    /\ ens = [t \in Callers |-> NoEnsure]
    /\ assert_failed = FALSE
    /\ loop_running = FALSE
    /\ ncalls = 0

ThreadFunc ==
    \/ MakeActivator
    \/ ActivateAsyncStart
    \/ ActivateAsyncTest
    \/ ActivateAsyncSet
    \/ ThreadAfterAsync
    \/ ThreadEnsureReturned
    \/ RunLoop

EnsureActivation(t) ==
    \/ EnsureAssert(t)
    \/ EnsureWait(t)
    \/ EnsureReturn(t)

NextActivate ==
    \/ ClientNew
    \/ Constructed
    \/ ClientNewReturn
    \/ ThreadFunc
    \/ ActivateCompleted
    \/ UserEnsure
    \/ \E t \in Callers : EnsureActivation(t)

SpecActivate == InitActivate /\ [][NextActivate]_vars

\* every thread that can run does run, and a completion that is under way is
\* delivered
SpecActivateFair ==
    /\ SpecActivate
    /\ WF_vars(ThreadFunc)
    /\ WF_vars(ActivateCompleted)
    /\ WF_vars(Constructed \/ ClientNewReturn)
    /\ \A t \in Callers : WF_vars(EnsureActivation(t))


\* a result of the activation is recorded
Recorded == activate_state \in {"DONE", "FAILED"}

\* C36: activate_state is monotone under every interleaving of the activating
\* thread and the completion callback: once it is DONE or FAILED it never
\* changes back to WAIT.
C36_ActivationMonotone ==
    [][Recorded => activate_state' # "WAIT"]_vars

\* the caller t is inside ensure_activation
InEnsure(t) == ens[t].pc \in {"assert", "locked", "blocked", "unlocked"}

\* C37: once the activation has been started and its completion callback is
\* delivered, every ensure_activation under way returns; the callback records
\* DONE with an audio client and FAILED without and leaves no waiter asleep;
\* ensure_activation returns TRUE exactly when the state is DONE.
C37_EnsureActivationReturns ==
    /\ \A t \in Callers :
          (async_op = "delivered" /\ InEnsure(t)) ~> (ens[t].pc = "returned")
    /\ [][ActivateCompleted =>
             /\ activate_state' = (IF audio_client' THEN "DONE" ELSE "FAILED")
             /\ \A t \in Callers : ens'[t].pc # "blocked"]_vars
    /\ [](\A t \in Callers :
             ens[t].pc = "returned" => (ens[t].ret <=> activate_state = "DONE"))

MaxCommits == 3

\* the buffers upstream hands to show_frame
Buffers == {1, 2}

\* wl_callback_destroy: the proxy is gone, and so is an event queued for it
Destroy(id, set) == set \ {id}

\* render_last_buffer (lines 861-882): the flag is set, a new frame callback
\* registered on the surface and the buffer committed
RenderLastBuffer ==
    /\ redraw_pending' = TRUE
    /\ callback' = ncommits + 1
    /\ registered' = registered \cup {ncommits + 1}
    /\ ncommits' = ncommits + 1

\* show_frame, lines 908-932: the window is looked up under the lock; the
\* base class calls show_frame only while the pads are active
ShowFrameBegin ==
    /\ sf_pc = "idle"
    /\ cs_pc = "idle"
    /\ render_lock = "free"
    /\ ncommits < MaxCommits
    /\ \E b \in Buffers : sf_buffer' = b
    /\ sf_pc' = "pending"
    /\ UNCHANGED <<redraw_pending, callback, registered, frame_queue, last_buffer,
                   cb_arg, render_lock, cs_pc, ncommits>>
    /\ UNCHANGED <<encoder_vars, client_vars>>

\* wl_display_dispatch_queue_pending (line 933), and the rest of a
\* wl_display_dispatch_queue: a queued event is handed to its listener, and
\* without one the call returns
DispatchPending ==
    /\ sf_pc = "pending"
    /\ IF frame_queue = {}
       THEN /\ sf_pc' = "lock"
            /\ UNCHANGED <<frame_queue, cb_arg>>
       ELSE \E id \in frame_queue :
               /\ frame_queue' = frame_queue \ {id}
               /\ cb_arg' = id
               /\ sf_pc' = "callback"
    /\ UNCHANGED <<redraw_pending, callback, registered, last_buffer, sf_buffer,
                   render_lock, cs_pc, ncommits>>
    /\ UNCHANGED <<encoder_vars, client_vars>>

\* lines 934-940: the test of the wait loop under the lock; the lock is kept
\* when the loop is left
ShowFrameLock ==
    /\ sf_pc = "lock"
    /\ render_lock = "free"
    /\ IF redraw_pending
       THEN /\ sf_pc' = "dispatch"
            /\ UNCHANGED render_lock
       ELSE /\ sf_pc' = "render"
            /\ render_lock' = "streaming"
    /\ UNCHANGED <<redraw_pending, callback, registered, frame_queue, last_buffer,
                   sf_buffer, cb_arg, cs_pc, ncommits>>
    /\ UNCHANGED <<encoder_vars, client_vars>>

\* wl_display_dispatch_queue (line 938): blocks until an event is queued
DispatchQueue ==
    /\ sf_pc = "dispatch"
    /\ \E id \in frame_queue :
          /\ frame_queue' = frame_queue \ {id}
          /\ cb_arg' = id
    /\ sf_pc' = "callback"
    /\ UNCHANGED <<redraw_pending, callback, registered, last_buffer, sf_buffer,
                   render_lock, cs_pc, ncommits>>
    /\ UNCHANGED <<encoder_vars, client_vars>>

\* frame_redraw_callback (lines 839-854)
FrameRedrawCallback ==
    /\ sf_pc = "callback"
    /\ render_lock = "free"
    /\ redraw_pending' = FALSE
    /\ IF callback # 0
       THEN /\ registered' = Destroy(cb_arg, registered)
            /\ frame_queue' = Destroy(cb_arg, frame_queue)
            /\ callback' = 0
       ELSE UNCHANGED <<registered, frame_queue, callback>>
    /\ sf_pc' = "pending"
    /\ UNCHANGED <<last_buffer, sf_buffer, cb_arg, render_lock, cs_pc, ncommits>>
    /\ UNCHANGED <<encoder_vars, client_vars>>

\* lines 942-1140: the buffer is dropped when it is the one being shown or
\* cannot be converted, else it becomes last_buffer and is rendered; the lock
\* is released at done:
ShowFrameRender ==
    /\ sf_pc = "render"
    /\ \/ /\ sf_buffer # last_buffer
          /\ last_buffer' = sf_buffer
          /\ RenderLastBuffer
       \/ UNCHANGED <<last_buffer, redraw_pending, callback, registered, ncommits>>
    /\ render_lock' = "free"
    /\ sf_pc' = "idle"
    /\ UNCHANGED <<frame_queue, sf_buffer, cb_arg, cs_pc>>
    /\ UNCHANGED <<encoder_vars, client_vars>>

ExposeIgnoresPending ==
    /\ render_lock = "free"
    /\ ncommits < MaxCommits
    /\ IF last_buffer # 0
       THEN RenderLastBuffer
       ELSE UNCHANGED <<redraw_pending, callback, registered, ncommits>>
    /\ UNCHANGED <<frame_queue, last_buffer, sf_pc, sf_buffer, cb_arg, render_lock,
                   cs_pc>>
    /\ UNCHANGED <<encoder_vars, client_vars>>

\* expose (lines 1214-1229)
Expose ==
    /\ render_lock = "free"
    /\ ncommits < MaxCommits
    /\ IF last_buffer # 0 /\ ~redraw_pending
       THEN RenderLastBuffer
       ELSE UNCHANGED <<redraw_pending, callback, registered, ncommits>>
    /\ UNCHANGED <<frame_queue, last_buffer, sf_pc, sf_buffer, cb_arg, render_lock,
                   cs_pc>>
    /\ UNCHANGED <<encoder_vars, client_vars>>

\* the compositor: the done event of a registered callback, sent once
FrameDone ==
    /\ \E id \in registered \ frame_queue :
          /\ ~(sf_pc = "callback" /\ cb_arg = id)
          /\ frame_queue' = frame_queue \cup {id}
    /\ UNCHANGED <<redraw_pending, callback, registered, last_buffer, sf_pc,
                   sf_buffer, cb_arg, render_lock, cs_pc, ncommits>>
    /\ UNCHANGED <<encoder_vars, client_vars>>

\* change_state, PAUSED_TO_READY, lines 523-539: the parent class has
\* deactivated the pads (line 523), so no show_frame is under way; last_buffer
\* is dropped
ChangeStateBegin ==
    /\ cs_pc = "idle"
    /\ sf_pc = "idle"
    /\ last_buffer' = 0
    /\ cs_pc' = "clear"
    /\ UNCHANGED <<redraw_pending, callback, registered, frame_queue, sf_pc,
                   sf_buffer, cb_arg, render_lock, ncommits>>
    /\ UNCHANGED <<encoder_vars, client_vars>>

\* lines 541-547: under the lock the callback is destroyed and the flag cleared
ChangeStateClear ==
    /\ cs_pc = "clear"
    /\ render_lock = "free"
    /\ registered' = Destroy(callback, registered)
    /\ frame_queue' = Destroy(callback, frame_queue)
    /\ callback' = 0
    /\ redraw_pending' = FALSE
    /\ cs_pc' = "idle"
    /\ UNCHANGED <<last_buffer, sf_pc, sf_buffer, cb_arg, render_lock, ncommits>>
    /\ UNCHANGED <<encoder_vars, client_vars>>

InitSink ==
    /\ EncoderIdle
    /\ ClientIdle
    /\ SinkIdle

NextSink ==
    \/ ShowFrameBegin
    \/ DispatchPending
    \/ ShowFrameLock
    \/ DispatchQueue
    \/ FrameRedrawCallback
    \/ ShowFrameRender
    \/ Expose
    \/ FrameDone
    \/ ChangeStateBegin
    \/ ChangeStateClear

SpecSink == InitSink /\ [][NextSink]_vars

\* C39: at most one frame callback is outstanding: redraw_pending is TRUE
\* exactly while a frame callback is registered, and that callback is the one
\* self->callback holds; a buffer is committed only when redraw_pending is
\* FALSE; the frame callback and the PAUSED-to-READY transition leave the flag
\* FALSE and the callback NULL together.
C39_OneFrameCallback ==
    /\ [](redraw_pending <=> callback # 0)
    /\ [](registered = IF callback # 0 THEN {callback} ELSE {})
    /\ [][RenderLastBuffer => ~redraw_pending]_vars
    /\ [][(FrameRedrawCallback \/ ChangeStateClear) =>
             /\ ~redraw_pending'
             /\ callback' = 0
             /\ registered' = {}]_vars

\* expose finds a frame callback outstanding and commits nothing
C39_Witness ==
    /\ last_buffer # 0
    /\ redraw_pending
    /\ callback # 0
    /\ sf_pc = "idle"
    /\ render_lock = "free"
    /\ ncommits < MaxCommits

====
